---- MODULE Spec2Model ----
(***************************************************************************)
(* Model of the restaurant analytics API (nickby2/desafio-nola-level).     *)
(*                                                                         *)
(* The store (the relational tables) is the state the API reads.  Every    *)
(* service method of backend/app/services/analytics_service.py is a pure   *)
(* function of the store, the clock and its arguments; it is modelled as   *)
(* an operator that evaluates the SQL the method builds (joins, WHERE,     *)
(* GROUP BY, HAVING, aggregates with SQL NULL) followed by the Python      *)
(* response shaping (the "or 0" coercions, the percentage guard).  Every   *)
(* endpoint is an action that records the request, the statements issued   *)
(* to the store and the response.                                          *)
(*                                                                         *)
(* Conventions                                                             *)
(*   - Python None and SQL NULL are the empty sequence; a present value v  *)
(*     is <<v>> (an option).                                               *)
(*   - Time is counted in whole days.                                      *)
(*   - Decimal/float results are exact rationals [num, den].               *)
(***************************************************************************)
EXTENDS Integers, Sequences, FiniteSets, TLC

VARIABLES
    sales,              \* table sales: set of Sale rows
    product_sales,      \* table product_sales
    products,           \* table products
    categories,         \* table categories
    customers,          \* table customers
    stores,             \* table stores
    channels,           \* table channels
    delivery_addresses, \* table delivery_addresses
    now,                \* the clock read by datetime.now()
    is_connected,       \* the prototype app's shared database handle
    request,            \* the request (or call) handled last
    response,           \* its response
    issued,             \* the statements it sent to the store, in order
    selected            \* ids of the sales in the query _apply_filters returned

tables == <<sales, product_sales, products, categories, customers, stores,
            channels, delivery_addresses>>
vars == <<sales, product_sales, products, categories, customers, stores,
          channels, delivery_addresses, now, is_connected, request, response,
          issued, selected>>

----------------------------------------------------------------------------
(* Options: None / NULL and present values.                                *)

None == <<>>
Null == <<>>
Some(v) == <<v>>
IsSet(o) == o # <<>>
Val(o) == o[1]

(* Variant: the test "is not None", which lets an empty list restrict.     *)
TruthyListNotNone(o) == o # None

(* Python truthiness of an Optional[List[...]]: neither None nor [].       *)
TruthyList(o) == o # None /\ Len(Val(o)) > 0

(* x IN (list): SQL membership; NULL IN (...) is never true.               *)
InList(x, list) == \E i \in 1..Len(list) : list[i] = x

----------------------------------------------------------------------------
(* Bounds and value alphabets of the checked store contents.               *)

MaxFilterSales == 1     \* sales rows in the stores of SpecFilter

StoreIds == {1, 2}
ChannelIds == {1, 2}
CustomerIds == {1, 2}
Times == {1, 2}

(* A Sale row (models.py, class Sale), the columns the analytics read.     *)
MkSale(id, t) ==
    [id |-> id, store_id |-> t.store_id, channel_id |-> t.channel_id,
     customer_id |-> t.customer_id, created_at |-> t.created_at,
     sale_status_desc |-> t.sale_status_desc, total_amount |-> t.total_amount,
     total_discount |-> t.total_discount, delivery_fee |-> t.delivery_fee,
     production_seconds |-> t.production_seconds,
     delivery_seconds |-> t.delivery_seconds]

(* The sales table holding the rows ts[1..n] under the ids 1..n.           *)
SalesTable(ts) == {MkSale(i, ts[i]) : i \in 1..Len(ts)}

(* All sequences of at most n elements of S.                               *)
SeqsUpTo(S, n) == UNION {[1..k -> S] : k \in 0..n}

StatusRank(s) ==
    CASE s = "COMPLETED" -> 0 [] s = "CANCELLED" -> 1 [] OTHER -> 2

(* An order on row contents.  Aggregates do not depend on which id a row   *)
(* carries, so the checked tables list their rows in this order.           *)
RowKey(t) ==
    (((((t.store_id * 4 + t.channel_id) * 4
        + (IF t.customer_id = Null THEN 0 ELSE Val(t.customer_id))) * 64
        + t.created_at) * 4 + StatusRank(t.sale_status_desc)) * 64
    + t.total_amount) * 2
    + (IF t.total_discount = Null THEN 0 ELSE 1)

Ordered(ts) == \A i \in 1..(Len(ts) - 1) : RowKey(ts[i]) <= RowKey(ts[i + 1])

(* The base query over Sale: one row per sale.                             *)
SaleQuery(tbl) == {[sale |-> s] : s \in tbl}

SaleIds(query) == {r.sale.id : r \in query}

----------------------------------------------------------------------------
(* AnalyticsService._apply_filters: each criterion that is truthy adds one *)
(* WHERE conjunct to the query.                                            *)

FilterStartDate(query, dr) ==
    IF IsSet(dr.start_date)
    THEN {r \in query : r.sale.created_at >= Val(dr.start_date)}
    ELSE query

(* Variant: an exclusive upper bound.                                      *)
FilterEndDateExclusive(query, dr) ==
    IF IsSet(dr.end_date)
    THEN {r \in query : r.sale.created_at < Val(dr.end_date)}
    ELSE query

FilterEndDate(query, dr) ==
    IF IsSet(dr.end_date)
    THEN {r \in query : r.sale.created_at <= Val(dr.end_date)}
    ELSE query

FilterStoreIds(query, f) ==
    IF TruthyList(f.store_ids)
    THEN {r \in query : InList(r.sale.store_id, Val(f.store_ids))}
    ELSE query

FilterChannelIds(query, f) ==
    IF TruthyList(f.channel_ids)
    THEN {r \in query : InList(r.sale.channel_id, Val(f.channel_ids))}
    ELSE query

FilterSaleStatus(query, f) ==
    IF TruthyList(f.sale_status)
    THEN {r \in query : InList(r.sale.sale_status_desc, Val(f.sale_status))}
    ELSE query

FilterCustomerIds(query, f) ==
    IF TruthyList(f.customer_ids)
    THEN {r \in query : /\ r.sale.customer_id # Null
                        /\ InList(Val(r.sale.customer_id), Val(f.customer_ids))}
    ELSE query

(* Variant: the dimension criteria joined by OR instead of chained.        *)
ApplyFiltersAnyOf(query, date_range, filters) ==
    LET q1 == IF IsSet(date_range)
              THEN FilterEndDate(FilterStartDate(query, Val(date_range)),
                                 Val(date_range))
              ELSE query
        f == Val(filters)
        anySet == \/ TruthyList(f.store_ids) \/ TruthyList(f.channel_ids)
                  \/ TruthyList(f.sale_status) \/ TruthyList(f.customer_ids)
    IN IF IsSet(filters) /\ anySet
       THEN {r \in q1 :
               \/ TruthyList(f.store_ids) /\ r \in FilterStoreIds(q1, f)
               \/ TruthyList(f.channel_ids) /\ r \in FilterChannelIds(q1, f)
               \/ TruthyList(f.sale_status) /\ r \in FilterSaleStatus(q1, f)
               \/ TruthyList(f.customer_ids) /\ r \in FilterCustomerIds(q1, f)}
       ELSE q1

ApplyFilters(query, date_range, filters) ==
    LET q1 == IF IsSet(date_range)
              THEN FilterEndDate(FilterStartDate(query, Val(date_range)),
                                 Val(date_range))
              ELSE query
        q2 == IF IsSet(filters)
              THEN FilterCustomerIds(
                     FilterSaleStatus(
                       FilterChannelIds(
                         FilterStoreIds(q1, Val(filters)), Val(filters)),
                       Val(filters)),
                     Val(filters))
              ELSE q1
    IN q2

----------------------------------------------------------------------------
(* Numbers.  Counts are integers; sums of DECIMAL columns are integers     *)
(* (cents); averages and percentages are exact rationals.                  *)

RECURSIVE Gcd(_, _)
Gcd(a, b) == IF b = 0 THEN a ELSE Gcd(b, a % b)

(* The rational n/d in lowest terms, for n >= 0 and d > 0.                 *)
Rat(n, d) == [num |-> n \div Gcd(n, d), den |-> d \div Gcd(n, d)]

(* float(x) of an integer or Decimal x.                                    *)
Float(n) == Rat(n, 1)

----------------------------------------------------------------------------
(* SQL aggregates over the rows of a group.  f maps each row to the value  *)
(* aggregated; SUM and AVG over no row are NULL.                           *)

RECURSIVE SumFn(_, _)
SumFn(f, S) ==
    IF S = {} THEN 0
    ELSE LET r == CHOOSE r \in S : TRUE IN f[r] + SumFn(f, S \ {r})

SqlCount(rows) == Cardinality(rows)

SqlSum(f, rows) == IF rows = {} THEN Null ELSE Some(SumFn(f, rows))

SqlAvg(f, rows) ==
    IF rows = {} THEN Null ELSE Some(Rat(SumFn(f, rows), Cardinality(rows)))

(* SUM over a nullable column: NULL values are skipped.                    *)
SqlSumNullable(f, rows) ==
    LET present == {r \in rows : f[r] # Null}
    IN SqlSum([r \in present |-> Val(f[r])], present)

(* A Python expression either yields a value v, written <<v>>, or raises, *)
(* written Raised; a handler in which an expression raises answers 500.    *)
Raised == <<>>
AnyRaised(S) == Raised \in S

(* Variant: the coercion left out, so that None reaches float().           *)
FloatNoCoercion(o) == IF o = Null THEN Raised ELSE Some(Float(Val(o)))

(* "x or 0" for an integer x that may be None.                             *)
IntOrZero(o) == Some(IF o = Null \/ Val(o) = 0 THEN 0 ELSE Val(o))

(* "float(x or 0)" for a Decimal sum x that may be None.                   *)
FloatOrZero(o) == Some(Float(IF o = Null \/ Val(o) = 0 THEN 0 ELSE Val(o)))

(* "float(x or 0)" for an average x that may be None.                      *)
FloatOrZeroAvg(o) == Some(IF o = Null \/ Val(o).num = 0 THEN Float(0) ELSE Val(o))

(* The orders in which ORDER BY key DESC may return the rows S: rows with  *)
(* equal keys come in any order.                                           *)
OrderedDesc(S, key) ==
    {q \in [1..Cardinality(S) -> S] :
        \A i, j \in 1..Cardinality(S) :
            i < j => q[i] # q[j] /\ key[q[i]] >= key[q[j]]}

OkResponse(body) == [status |-> 200, body |-> body]
ErrorResponse(code) == [status |-> code]

(* Variant: the status compared without regard to case.                    *)
IsCompletedAnyCase(s) ==
    s.sale_status_desc \in {"COMPLETED", "Completed", "completed"}

(* Sale.sale_status_desc == 'COMPLETED': exact, case-sensitive equality.   *)
IsCompleted(s) == s.sale_status_desc = "COMPLETED"

(* Variant: every sale that is not COMPLETED counts as cancelled.          *)
IsCancelledOrOther(s) == s.sale_status_desc # "COMPLETED"

(* Sale.sale_status_desc == 'CANCELLED'                                    *)
IsCancelled(s) == s.sale_status_desc = "CANCELLED"

CompletedOnly(query) == {r \in query : IsCompleted(r.sale)}

----------------------------------------------------------------------------
(* AnalyticsService.get_sales_overview: one aggregate row over the         *)
(* filtered sales, every aggregate coerced with "or 0".                    *)

GetSalesOverview(date_range, filters) ==
    LET q == ApplyFilters(SaleQuery(sales), date_range, filters)
        amount == [r \in q |-> r.sale.total_amount]
        total_sales == IntOrZero(Some(SqlCount(q)))
        total_revenue == FloatOrZero(SqlSum(amount, q))
        average_ticket == FloatOrZeroAvg(SqlAvg(amount, q))
        completed_sales ==
            IntOrZero(SqlSum([r \in q |-> IF IsCompleted(r.sale) THEN 1 ELSE 0], q))
        cancelled_sales ==
            IntOrZero(SqlSum([r \in q |-> IF IsCancelled(r.sale) THEN 1 ELSE 0], q))
        total_discount ==
            FloatOrZero(SqlSumNullable([r \in q |-> r.sale.total_discount], q))
        total_delivery_fee ==
            FloatOrZero(SqlSumNullable([r \in q |-> r.sale.delivery_fee], q))
    IN IF AnyRaised({total_sales, total_revenue, average_ticket, completed_sales,
                     cancelled_sales, total_discount, total_delivery_fee})
       THEN ErrorResponse(500)
       ELSE OkResponse(
              [total_sales |-> Val(total_sales),
               total_revenue |-> Val(total_revenue),
               average_ticket |-> Val(average_ticket),
               completed_sales |-> Val(completed_sales),
               cancelled_sales |-> Val(cancelled_sales),
               total_discount |-> Val(total_discount),
               total_delivery_fee |-> Val(total_delivery_fee)])

OverviewStatements == <<"SELECT">>

----------------------------------------------------------------------------
(* AnalyticsService.get_channel_performance and get_store_performance:     *)
(* a first query for the total revenue of the completed filtered sales,    *)
(* then the grouped query over Sale JOIN Channel (Store).                  *)

(* Variant: the division without the guard; dividing by zero raises.       *)
PercentageUnguarded(group_revenue, total_revenue) ==
    IF total_revenue = 0 THEN Raised
    ELSE Some(Rat(group_revenue * 100, total_revenue))

(* (r.total_revenue / total_revenue * 100) if total_revenue > 0 else 0     *)
Percentage(group_revenue, total_revenue) ==
    IF total_revenue > 0
    THEN Some(Rat(group_revenue * 100, total_revenue))
    ELSE Some(Float(0))

(* Variant: the total taken over the filtered sales of every status.       *)
TotalRevenueAnyStatus(date_range, filters) ==
    LET q == ApplyFilters(SaleQuery(sales), date_range, filters)
    IN Val(IntOrZero(SqlSum([r \in q |-> r.sale.total_amount], q)))

(* total_revenue_query ... .scalar() or 0                                  *)
TotalRevenue(date_range, filters) ==
    LET q == CompletedOnly(ApplyFilters(SaleQuery(sales), date_range, filters))
    IN Val(IntOrZero(SqlSum([r \in q |-> r.sale.total_amount], q)))

(* Sale JOIN Channel ON Sale.channel_id = Channel.id                       *)
SaleJoinChannel ==
    {r \in [sale : sales, channel : channels] : r.sale.channel_id = r.channel.id}

(* Sale JOIN Store ON Sale.store_id = Store.id                             *)
SaleJoinStore ==
    {r \in [sale : sales, store : stores] : r.sale.store_id = r.store.id}

PerformanceItem(head, rows, total_revenue) ==
    LET amount == [r \in rows |-> r.sale.total_amount]
    IN [head |-> head,
        total_sales |-> IntOrZero(Some(SqlCount(rows))),
        total_revenue |-> FloatOrZero(SqlSum(amount, rows)),
        average_ticket |-> FloatOrZeroAvg(SqlAvg(amount, rows)),
        revenue_percentage |-> Percentage(SumFn(amount, rows), total_revenue)]

ItemRaised(item) ==
    AnyRaised({item.total_sales, item.total_revenue, item.average_ticket,
               item.revenue_percentage})

(* The possible results of the grouped query, as lists of response items:  *)
(* GROUP BY head, ORDER BY SUM(total_amount) DESC.                         *)
PerformanceResults(query, headOf, total_revenue) ==
    LET heads == {headOf[r] : r \in query}
        rowsOf == [h \in heads |-> {r \in query : headOf[r] = h}]
        items == {PerformanceItem(h, rowsOf[h], total_revenue) : h \in heads}
        key == [i \in items |-> Val(i.total_revenue).num]
    IN OrderedDesc(items, key)

ChannelItem(c, m) ==
    [channel_id |-> c.id, channel_name |-> c.name, channel_type |-> c.type,
     total_sales |-> m.total_sales, total_revenue |-> m.total_revenue,
     average_ticket |-> m.average_ticket,
     revenue_percentage |-> m.revenue_percentage]

StoreItem(st, m) ==
    [store_id |-> st.id, store_name |-> st.name, city |-> st.city,
     state |-> st.state,
     total_sales |-> m.total_sales, total_revenue |-> m.total_revenue,
     average_ticket |-> m.average_ticket,
     revenue_percentage |-> m.revenue_percentage]

PerformanceShape(kind, head, m) ==
    IF kind = "channel" THEN ChannelItem(head, m) ELSE StoreItem(head, m)

PerformanceResponse(result, kind) ==
    IF \E i \in 1..Len(result) : ItemRaised(result[i])
    THEN ErrorResponse(500)
    ELSE OkResponse([i \in 1..Len(result) |->
            PerformanceShape(kind, result[i].head,
                  [total_sales |-> Val(result[i].total_sales),
                   total_revenue |-> Val(result[i].total_revenue),
                   average_ticket |-> Val(result[i].average_ticket),
                   revenue_percentage |->
                       Val(result[i].revenue_percentage)])])

(* The responses of the grouped query of get_channel_performance, given    *)
(* the total revenue the first query read.                                 *)
ChannelPerformanceGiven(date_range, filters, total_revenue) ==
    LET q == CompletedOnly(ApplyFilters(SaleJoinChannel, date_range, filters))
    IN {PerformanceResponse(res, "channel") :
          res \in PerformanceResults(q, [r \in q |-> r.channel],
                                     total_revenue)}

(* The same for get_store_performance.                                     *)
StorePerformanceGiven(date_range, filters, total_revenue) ==
    LET q == CompletedOnly(ApplyFilters(SaleJoinStore, date_range, filters))
    IN {PerformanceResponse(res, "store") :
          res \in PerformanceResults(q, [r \in q |-> r.store], total_revenue)}

(* The responses get_channel_performance may give when the store does not  *)
(* change between its two queries.                                         *)
GetChannelPerformance(date_range, filters) ==
    ChannelPerformanceGiven(date_range, filters,
                            TotalRevenue(date_range, filters))

(* The responses get_store_performance may give when the store does not    *)
(* change between its two queries.                                         *)
GetStorePerformance(date_range, filters) ==
    StorePerformanceGiven(date_range, filters,
                          TotalRevenue(date_range, filters))

PerformanceStatements == <<"SELECT", "SELECT">>

----------------------------------------------------------------------------
(* AnalyticsService.get_product_ranking: line items of completed sales     *)
(* grouped by product, most sold first, cut at limit.                      *)

(* ProductSale JOIN Product JOIN Sale LEFT OUTER JOIN Category: the        *)
(* category of a row is NULL when the product has none.                    *)
CategoryOf(p) ==
    IF \E c \in categories : p.category_id = Some(c.id)
    THEN Some(CHOOSE c \in categories : p.category_id = Some(c.id))
    ELSE Null

LineItemJoin ==
    {[ps |-> x.ps, product |-> x.product, sale |-> x.sale,
      category |-> CategoryOf(x.product)] :
        x \in {y \in [ps : product_sales, product : products, sale : sales] :
                 /\ y.ps.product_id = y.product.id
                 /\ y.ps.sale_id = y.sale.id}}

RatAdd(a, b) == Rat(a.num * b.den + b.num * a.den, a.den * b.den)

RECURSIVE RatSumFn(_, _)
RatSumFn(f, S) ==
    IF S = {} THEN Float(0)
    ELSE LET r == CHOOSE r \in S : TRUE IN RatAdd(f[r], RatSumFn(f, S \ {r}))

(* AVG over rational values.                                               *)
SqlAvgRat(f, rows) ==
    IF rows = {} THEN Null
    ELSE LET total == RatSumFn(f, rows)
         IN Some(Rat(total.num, total.den * Cardinality(rows)))

CategoryName(c) == IF c = Null THEN None ELSE Some(Val(c).name)

RankingItem(head, rows) ==
    [product_id |-> head.product.id,
     product_name |-> head.product.name,
     category_name |-> CategoryName(head.category),
     total_quantity |-> FloatOrZero(SqlSum([r \in rows |-> r.ps.quantity], rows)),
     total_revenue |-> FloatOrZero(SqlSum([r \in rows |-> r.ps.total_price], rows)),
     order_count |-> IntOrZero(Some(Cardinality({r.sale.id : r \in rows}))),
     average_price |->
         FloatOrZeroAvg(SqlAvgRat([r \in rows |->
                                     Rat(r.ps.total_price, r.ps.quantity)], rows))]

Limit(q, limit) == SubSeq(q, 1, IF limit < Len(q) THEN limit ELSE Len(q))

(* The responses get_product_ranking may give.                             *)
GetProductRanking(date_range, filters, limit) ==
    LET q == CompletedOnly(ApplyFilters(LineItemJoin, date_range, filters))
        heads == {[product |-> r.product, category |-> r.category] : r \in q}
        rowsOf == [h \in heads |->
                     {r \in q : r.product = h.product /\ r.category = h.category}]
        items == {RankingItem(h, rowsOf[h]) : h \in heads}
        key == [i \in items |-> Val(i.total_quantity).num]
    IN {LET rows == Limit(res, limit)
        IN IF \E i \in 1..Len(rows) :
                AnyRaised({rows[i].total_quantity, rows[i].total_revenue,
                           rows[i].order_count, rows[i].average_price})
           THEN ErrorResponse(500)
           ELSE OkResponse([i \in 1..Len(rows) |->
                  [product_id |-> rows[i].product_id,
                   product_name |-> rows[i].product_name,
                   category_name |-> rows[i].category_name,
                   total_quantity |-> Val(rows[i].total_quantity),
                   total_revenue |-> Val(rows[i].total_revenue),
                   order_count |-> Val(rows[i].order_count),
                   average_price |-> Val(rows[i].average_price)]]) :
        res \in OrderedDesc(items, key)}

RankingStatements == <<"SELECT">>

----------------------------------------------------------------------------
(* AnalyticsService.get_product_margin_analysis: line items of completed   *)
(* sales grouped by product, highest revenue first, cut at limit.          *)

MarginItem(head, rows) ==
    [product_id |-> head.product.id,
     product_name |-> head.product.name,
     category_name |-> CategoryName(head.category),
     avg_base_price |->
         FloatOrZeroAvg(SqlAvg([r \in rows |-> r.ps.base_price], rows)),
     avg_total_price |->
         FloatOrZeroAvg(SqlAvg([r \in rows |-> r.ps.total_price], rows)),
     avg_customization_value |->
         FloatOrZeroAvg(SqlAvg([r \in rows |->
                                  r.ps.total_price - r.ps.base_price], rows)),
     total_revenue |-> FloatOrZero(SqlSum([r \in rows |-> r.ps.total_price], rows)),
     order_count |-> IntOrZero(Some(Cardinality({r.sale.id : r \in rows})))]

(* Variant: ORDER BY sum(total_price - base_price) DESC.                   *)
MarginOrderByCustomization(rows) ==
    SumFn([r \in rows |-> r.ps.total_price - r.ps.base_price], rows)

(* ORDER BY sum(total_price) DESC                                          *)
MarginOrderKey(rows) == SumFn([r \in rows |-> r.ps.total_price], rows)

(* The responses get_product_margin_analysis may give.                     *)
GetProductMarginAnalysis(date_range, filters, limit) ==
    LET q == CompletedOnly(ApplyFilters(LineItemJoin, date_range, filters))
        heads == {[product |-> r.product, category |-> r.category] : r \in q}
        rowsOf == [h \in heads |->
                     {r \in q : r.product = h.product /\ r.category = h.category}]
        key == [h \in heads |-> MarginOrderKey(rowsOf[h])]
    IN {LET rows == Limit(res, limit)
        IN OkResponse([i \in 1..Len(rows) |->
              LET item == MarginItem(rows[i], rowsOf[rows[i]])
              IN [product_id |-> item.product_id,
                  product_name |-> item.product_name,
                  category_name |-> item.category_name,
                  avg_base_price |-> Val(item.avg_base_price),
                  avg_total_price |-> Val(item.avg_total_price),
                  avg_customization_value |-> Val(item.avg_customization_value),
                  total_revenue |-> Val(item.total_revenue),
                  order_count |-> Val(item.order_count)]]) :
        res \in OrderedDesc(heads, key)}

MarginStatements == <<"SELECT">>

----------------------------------------------------------------------------
(* AnalyticsService.get_delivery_performance: completed sales with a       *)
(* delivery time, grouped by the neighborhood and city of their delivery   *)
(* address; groups of fewer than 5 are left out.                           *)

(* Sale JOIN DeliveryAddress ON Sale.id = DeliveryAddress.sale_id          *)
SaleJoinDeliveryAddress ==
    {x \in [sale : sales, address : delivery_addresses] :
        x.sale.id = x.address.sale_id}

(* AVG(column / 60.0) over the rows where the column is not NULL.          *)
SqlAvgMinutes(f, rows) ==
    LET present == {r \in rows : f[r] # Null}
    IN IF present = {} THEN Null
       ELSE Some(Rat(SumFn([r \in present |-> Val(f[r])], present),
                     60 * Cardinality(present)))

(* avg_delivery + avg_production: NULL when either is.                     *)
SqlAdd(a, b) == IF a = Null \/ b = Null THEN Null ELSE Some(RatAdd(Val(a), Val(b)))

(* Variant: groups of 4 are listed too.                                    *)
HavingAtLeastFour(rows) == SqlCount(rows) >= 4

(* HAVING count(Sale.id) >= 5                                              *)
HavingMinimumDeliveries(rows) == SqlCount(rows) >= 5

DeliveryItem(head, rows) ==
    LET avg_delivery == SqlAvgMinutes([r \in rows |-> r.sale.delivery_seconds], rows)
        avg_production ==
            SqlAvgMinutes([r \in rows |-> r.sale.production_seconds], rows)
    IN [neighborhood |-> head.neighborhood,
        city |-> head.city,
        total_deliveries |-> Val(IntOrZero(Some(SqlCount(rows)))),
        avg_delivery_time_minutes |-> Val(FloatOrZeroAvg(avg_delivery)),
        avg_production_time_minutes |-> Val(FloatOrZeroAvg(avg_production)),
        total_delivery_time_minutes |->
            Val(FloatOrZeroAvg(SqlAdd(avg_delivery, avg_production)))]

(* ORDER BY (avg_delivery + avg_production) DESC: a NULL sum comes first;  *)
(* the sum is scaled to an integer (group sizes divide 60).                *)
DeliveryOrderKey(rows) ==
    LET total == SqlAdd(SqlAvgMinutes([r \in rows |-> r.sale.delivery_seconds], rows),
                        SqlAvgMinutes([r \in rows |-> r.sale.production_seconds], rows))
    IN IF total = Null THEN 1000000000
       ELSE (Val(total).num * 3600) \div Val(total).den

(* The responses get_delivery_performance may give.                        *)
GetDeliveryPerformance(date_range, filters) ==
    LET q == {r \in CompletedOnly(ApplyFilters(SaleJoinDeliveryAddress,
                                               date_range, filters)) :
                r.sale.delivery_seconds # Null}
        heads == {[neighborhood |-> r.address.neighborhood,
                   city |-> r.address.city] : r \in q}
        rowsOf == [h \in heads |->
                     {r \in q : /\ r.address.neighborhood = h.neighborhood
                                /\ r.address.city = h.city}]
        listed == {h \in heads : HavingMinimumDeliveries(rowsOf[h])}
        key == [h \in listed |-> DeliveryOrderKey(rowsOf[h])]
    IN {OkResponse([i \in 1..Len(res) |-> DeliveryItem(res[i], rowsOf[res[i]])]) :
        res \in OrderedDesc(listed, key)}

DeliveryStatements == <<"SELECT">>

----------------------------------------------------------------------------
(* Timestamps with an hour.  Where hours matter, created_at counts the     *)
(* hours since 2023-01-01 00:00, a Sunday.                                 *)

ExtractHour(t) == t % 24

(* extract('dow', ...): 0 = Sunday .. 6 = Saturday                         *)
ExtractDow(t) == (t \div 24) % 7

(* cast(created_at, Date): the day, counted from 2023-01-01.               *)
CastDate(t) == t \div 24

(* date_trunc('week', ...): the Monday the week starts with.               *)
DateTruncWeek(t) == CastDate(t) - ((ExtractDow(t) + 6) % 7)

(* The first days of the months of 2023.                                   *)
MonthStarts == <<0, 31, 59, 90, 120, 151, 181, 212, 243, 273, 304, 334>>

MonthOf(day) ==
    CHOOSE m \in 1..12 :
        /\ MonthStarts[m] <= day
        /\ m < 12 => day < MonthStarts[m + 1]

(* date_trunc('month', ...): the first day of the month.                   *)
DateTruncMonth(t) == MonthStarts[MonthOf(CastDate(t))]

(* date.isoformat() of a day of 2023, and datetime.isoformat() of its      *)
(* midnight.                                                               *)
IsoFormat(day, with_time) ==
    [year |-> 2023, month |-> MonthOf(day),
     day |-> day - MonthStarts[MonthOf(day)] + 1,
     time |-> IF with_time THEN "T00:00:00" ELSE ""]

(* Variant: ORDER BY key DESC in its place.                                *)
OrderedLatestFirst(S, key) == OrderedDesc(S, key)

(* ORDER BY key ascending: rows with equal keys come in any order.         *)
OrderedAsc(S, key) == OrderedDesc(S, [x \in S |-> 0 - key[x]])

----------------------------------------------------------------------------
(* AnalyticsService.get_time_series: completed sales grouped by day, week  *)
(* or month, oldest first.                                                 *)

Periods == {"daily", "weekly", "monthly"}

(* date_group: an unknown period groups by day.                            *)
DateGroup(period, t) ==
    CASE period = "daily" -> CastDate(t)
      [] period = "weekly" -> DateTruncWeek(t)
      [] period = "monthly" -> DateTruncMonth(t)
      [] OTHER -> CastDate(t)

(* cast(..., Date) yields a date, date_trunc a timestamp.                  *)
DateGroupHasTime(period) == period \in {"weekly", "monthly"}

TimeSeriesDataPoint(period, date, rows) ==
    [date |-> IsoFormat(date, DateGroupHasTime(period)),
     sales_count |-> Val(IntOrZero(Some(SqlCount(rows)))),
     revenue |-> Val(FloatOrZero(SqlSum([r \in rows |-> r.sale.total_amount], rows))),
     average_ticket |->
         Val(FloatOrZeroAvg(SqlAvg([r \in rows |-> r.sale.total_amount], rows)))]

(* The responses get_time_series may give.                                 *)
GetTimeSeries(date_range, filters, period) ==
    LET q == CompletedOnly(ApplyFilters(SaleQuery(sales), date_range, filters))
        dates == {DateGroup(period, r.sale.created_at) : r \in q}
        rowsOf == [d \in dates |->
                     {r \in q : DateGroup(period, r.sale.created_at) = d}]
    IN {OkResponse([i \in 1..Len(res) |->
                      TimeSeriesDataPoint(period, res[i], rowsOf[res[i]])]) :
        res \in OrderedAsc(dates, [d \in dates |-> d])}

TimeSeriesStatements == <<"SELECT">>

----------------------------------------------------------------------------
(* AnalyticsService.get_hourly_performance: completed sales grouped by     *)
(* hour and day of week, or by hour alone when a day of week is asked for. *)

DayNames ==
    <<"Domingo", "Segunda", "Terca", "Quarta", "Quinta", "Sexta", "Sabado">>

(* The columns of the select list that are not aggregates.                 *)
HourlySelectList == {"hour", "day_of_week"}

(* Variant: the day of week stays in the GROUP BY.                         *)
HourlyGroupByBoth(day_of_week) == {"hour", "day_of_week"}

HourlyGroupBy(day_of_week) ==
    IF day_of_week # None THEN {"hour"} ELSE {"hour", "day_of_week"}

(* The store is PostgreSQL (DATABASE_URL): it refuses a statement whose    *)
(* select list has a column that is neither grouped nor aggregated.        *)
GroupingError(select_list, group_by) == ~(select_list \subseteq group_by)

HourlyItem(head, rows) ==
    [hour |-> head.hour,
     day_of_week |-> Some(head.day_of_week),
     day_name |-> Some(DayNames[head.day_of_week + 1]),
     sales_count |-> Val(IntOrZero(Some(SqlCount(rows)))),
     revenue |-> Val(FloatOrZero(SqlSum([r \in rows |-> r.sale.total_amount], rows))),
     average_ticket |->
         Val(FloatOrZeroAvg(SqlAvg([r \in rows |-> r.sale.total_amount], rows)))]

(* The responses get_hourly_performance may give.                          *)
GetHourlyPerformance(date_range, filters, day_of_week) ==
    IF GroupingError(HourlySelectList, HourlyGroupBy(day_of_week))
    THEN {ErrorResponse(500)}
    ELSE
    LET q == {r \in CompletedOnly(ApplyFilters(SaleQuery(sales), date_range,
                                               filters)) :
                day_of_week # None =>
                    ExtractDow(r.sale.created_at) = Val(day_of_week)}
        heads == {[hour |-> ExtractHour(r.sale.created_at),
                   day_of_week |-> ExtractDow(r.sale.created_at)] : r \in q}
        rowsOf == [h \in heads |->
                     {r \in q : /\ ExtractHour(r.sale.created_at) = h.hour
                                /\ ExtractDow(r.sale.created_at) = h.day_of_week}]
    IN {OkResponse([i \in 1..Len(res) |-> HourlyItem(res[i], rowsOf[res[i]])]) :
        res \in OrderedAsc(heads, [h \in heads |-> h.hour])}

HourlyStatements == <<"SELECT">>

----------------------------------------------------------------------------
(* AnalyticsService.get_customer_retention: customers with enough          *)
(* completed orders whose last order is older than the cutoff.             *)

SetMax(S) == CHOOSE x \in S : \A y \in S : y <= x
SetMin(S) == CHOOSE x \in S : \A y \in S : x <= y

(* Variant: the interval added to the clock instead of subtracted.         *)
CutoffDateAhead(clock, days_inactive) == clock + days_inactive

(* cutoff_date = datetime.now() - timedelta(days=days_inactive)            *)
CutoffDate(clock, days_inactive) == clock - days_inactive

(* The subquery customer_stats: completed sales with a customer, grouped   *)
(* by customer_id.                                                         *)
CustomerStats ==
    LET rows == {s \in sales : s.customer_id # Null /\ IsCompleted(s)}
        of == [cid \in {Val(s.customer_id) : s \in rows} |->
                 {s \in rows : s.customer_id = Some(cid)}]
    IN {[customer_id |-> cid,
         total_orders |-> SqlCount(of[cid]),
         total_spent |-> SqlSum([s \in of[cid] |-> s.total_amount], of[cid]),
         average_ticket |-> SqlAvg([s \in of[cid] |-> s.total_amount], of[cid]),
         last_order_date |-> SetMax({s.created_at : s \in of[cid]}),
         first_order_date |-> SetMin({s.created_at : s \in of[cid]})] :
        cid \in DOMAIN of}

EnoughOrders(st, min_orders) == st.total_orders >= min_orders

InactiveSinceInclusive(st, cutoff_date) == st.last_order_date <= cutoff_date

InactiveSince(st, cutoff_date) == st.last_order_date < cutoff_date

(* Customer JOIN customer_stats, filtered.                                 *)
RetentionQuery(min_orders, cutoff_date) ==
    {x \in [customer : customers, stats : CustomerStats] :
        /\ x.customer.id = x.stats.customer_id
        /\ EnoughOrders(x.stats, min_orders)
        /\ InactiveSince(x.stats, cutoff_date)}

(* One CustomerRetentionItem; clock is the datetime.now() read when the    *)
(* item is built.                                                          *)
RetentionItem(x, clock) ==
    [customer_id |-> x.customer.id,
     customer_name |-> x.customer.customer_name,
     email |-> x.customer.email,
     phone_number |-> x.customer.phone_number,
     total_orders |-> x.stats.total_orders,
     total_spent |-> Val(FloatOrZero(x.stats.total_spent)),
     average_ticket |-> Val(FloatOrZeroAvg(x.stats.average_ticket)),
     last_order_date |-> x.stats.last_order_date,
     days_since_last_order |-> clock - x.stats.last_order_date,
     first_order_date |-> x.stats.first_order_date]

(* The responses get_customer_retention may give when the clock reads      *)
(* clock at the cutoff and later when the items are built.                 *)
GetCustomerRetention(min_orders, days_inactive, clock, later) ==
    LET q == RetentionQuery(min_orders, CutoffDate(clock, days_inactive))
        key == [x \in q |-> Val(FloatOrZero(x.stats.total_spent)).num]
    IN {OkResponse([i \in 1..Len(res) |-> RetentionItem(res[i], later)]) :
        res \in OrderedDesc(q, key)}

RetentionStatements == <<"SELECT">>

----------------------------------------------------------------------------
(* The HTTP endpoints of api/v1/analytics.py.  A query-string parameter is *)
(* None when absent, else Some of its characters.                          *)

(* DateRangeFilter() and DimensionFilter() with no field given.            *)
NoDateRange == [start_date |-> None, end_date |-> None]
NoDimensions ==
    [store_ids |-> None, channel_ids |-> None, product_ids |-> None,
     category_ids |-> None, customer_ids |-> None, sale_status |-> None]

Digits == <<"0", "1", "2", "3", "4", "5", "6", "7", "8", "9">>

IsDigit(c) == \E d \in 1..Len(Digits) : Digits[d] = c

DigitValue(c) == (CHOOSE d \in 1..Len(Digits) : Digits[d] = c) - 1

(* str.split(','): the pieces between the commas, empty pieces included.   *)
RECURSIVE Split(_)
Split(str) ==
    IF \A i \in 1..Len(str) : str[i] # ","
    THEN <<str>>
    ELSE LET i == CHOOSE k \in 1..Len(str) :
                      str[k] = "," /\ \A j \in 1..(k - 1) : str[j] # ","
         IN <<SubSeq(str, 1, i - 1)>> \o Split(SubSeq(str, i + 1, Len(str)))

RECURSIVE DecimalValue(_)
DecimalValue(piece) ==
    IF piece = <<>> THEN 0
    ELSE DecimalValue(SubSeq(piece, 1, Len(piece) - 1)) * 10
         + DigitValue(piece[Len(piece)])

(* int(x) on a piece of digits and letters: ValueError unless the piece is *)
(* a non-empty run of digits.                                              *)
ParseInt(piece) ==
    IF piece = <<>> \/ \E i \in 1..Len(piece) : ~IsDigit(piece[i])
    THEN Raised
    ELSE Some(DecimalValue(piece))

(* [int(x) for x in raw.split(',')]                                        *)
ParseIdList(raw) ==
    LET pieces == Split(raw)
    IN IF \E i \in 1..Len(pieces) : ParseInt(pieces[i]) = Raised
       THEN Raised
       ELSE Some([i \in 1..Len(pieces) |-> Val(ParseInt(pieces[i]))])

(* "if store_ids:" -- the parameter is given and not the empty string.     *)
TruthyStr(raw) == raw # None /\ Len(Val(raw)) > 0

(* The value a handler assigns to a filter field, or Raised.               *)
IdListParam(raw) ==
    IF ~TruthyStr(raw) THEN Some(None)
    ELSE IF ParseIdList(Val(raw)) = Raised THEN Raised
    ELSE Some(ParseIdList(Val(raw)))

(* DimensionFilter() with store_ids and channel_ids set from the query     *)
(* string, or Raised.                                                      *)
EndpointFilters(store_ids, channel_ids) ==
    IF IdListParam(store_ids) = Raised \/ IdListParam(channel_ids) = Raised
    THEN Raised
    ELSE Some([NoDimensions EXCEPT !.store_ids = Val(IdListParam(store_ids)),
                                   !.channel_ids = Val(IdListParam(channel_ids))])

(* An exception no handler catches is answered with status 500.            *)
InternalServerError == ErrorResponse(500)

(* What an endpoint does: the response it gives and the statements it      *)
(* sends, given the responses the service method may give.                 *)
EndpointOutcomes(filters, results, stmts) ==
    IF filters = Raised
    THEN {[response |-> InternalServerError, issued |-> <<>>]}
    ELSE {[response |-> r, issued |-> stmts] : r \in results}

ListResponse(r, field) ==
    IF r.status # 200 THEN r
    ELSE OkResponse([f \in {field, "total_count"} |->
                       IF f = field THEN r.body ELSE Len(r.body)])

FieldResponse(r, field) ==
    IF r.status # 200 THEN r ELSE OkResponse([f \in {field} |-> r.body])

ApiDateRange(start_date, end_date) ==
    Some([start_date |-> start_date, end_date |-> end_date])

ApiSalesOverviewOutcomes(start_date, end_date, store_ids, channel_ids) ==
    LET filters == EndpointFilters(store_ids, channel_ids)
    IN EndpointOutcomes(filters,
         IF filters = Raised THEN {}
         ELSE {GetSalesOverview(ApiDateRange(start_date, end_date), filters)},
         OverviewStatements)

(* A declared query parameter that fails its constraint is answered with   *)
(* status 422 before the handler runs.                                     *)
UnprocessableEntity == ErrorResponse(422)

Validated(ok, outcomes) ==
    IF ok THEN outcomes
    ELSE {[response |-> UnprocessableEntity, issued |-> <<>>]}

(* Query(default, ...): the default when the parameter is absent.          *)
QueryDefault(value, default) == IF value = None THEN default ELSE Val(value)

(* Query(..., ge=lo, le=hi)                                                *)
InRange(v, lo, hi) == lo <= v /\ v <= hi

(* Variant: the constraint left out.                                       *)
RankingLimitUnchecked(limit) == TRUE

RankingLimitOk(limit) == InRange(QueryDefault(limit, 20), 1, 100)

MarginLimitOk(limit) == InRange(QueryDefault(limit, 50), 1, 200)

ApiProductRankingOutcomes(start_date, end_date, store_ids, channel_ids, limit) ==
    LET filters == EndpointFilters(store_ids, channel_ids)
    IN Validated(RankingLimitOk(limit),
         EndpointOutcomes(filters,
           IF filters = Raised THEN {}
           ELSE {ListResponse(r, "products") :
                   r \in GetProductRanking(ApiDateRange(start_date, end_date),
                                           filters, QueryDefault(limit, 20))},
           RankingStatements))

ApiProductMarginOutcomes(start_date, end_date, store_ids, channel_ids, limit) ==
    LET filters == EndpointFilters(store_ids, channel_ids)
    IN Validated(MarginLimitOk(limit),
         EndpointOutcomes(filters,
           IF filters = Raised THEN {}
           ELSE {FieldResponse(r, "products") :
                   r \in GetProductMarginAnalysis(
                            ApiDateRange(start_date, end_date), filters,
                            QueryDefault(limit, 50))},
           MarginStatements))

(* period: str = Query('daily', regex='^(daily|weekly|monthly)$')          *)
PeriodUnchecked(period) == TRUE

PeriodOk(period) == QueryDefault(period, "daily") \in Periods

(* day_of_week: Optional[int] = Query(None, ge=0, le=6)                    *)
DayOfWeekOk(day_of_week) ==
    day_of_week = None \/ InRange(Val(day_of_week), 0, 6)

TimeSeriesResponse(r, period) ==
    IF r.status # 200 THEN r
    ELSE OkResponse([data |-> r.body, period_type |-> period])

ApiTimeSeriesOutcomes(start_date, end_date, period, store_ids, channel_ids) ==
    LET filters == EndpointFilters(store_ids, channel_ids)
    IN Validated(PeriodOk(period),
         EndpointOutcomes(filters,
           IF filters = Raised THEN {}
           ELSE {TimeSeriesResponse(r, QueryDefault(period, "daily")) :
                   r \in GetTimeSeries(ApiDateRange(start_date, end_date),
                                       filters, QueryDefault(period, "daily"))},
           TimeSeriesStatements))

ApiDeliveryPerformanceOutcomes(start_date, end_date, store_ids) ==
    LET filters == EndpointFilters(store_ids, None)
    IN EndpointOutcomes(filters,
         IF filters = Raised THEN {}
         ELSE {FieldResponse(r, "locations") :
                 r \in GetDeliveryPerformance(ApiDateRange(start_date, end_date),
                                              filters)},
         DeliveryStatements)

ApiHourlyPerformanceOutcomes(start_date, end_date, day_of_week, store_ids, channel_ids) ==
    LET filters == EndpointFilters(store_ids, channel_ids)
    IN Validated(DayOfWeekOk(day_of_week),
         EndpointOutcomes(filters,
           IF filters = Raised THEN {}
           ELSE {FieldResponse(r, "performance") :
                   r \in GetHourlyPerformance(
                            ApiDateRange(start_date, end_date), filters,
                            day_of_week)},
           HourlyStatements))

ApiChannelPerformanceOutcomes(start_date, end_date, store_ids) ==
    LET filters == EndpointFilters(store_ids, None)
    IN EndpointOutcomes(filters,
         IF filters = Raised THEN {}
         ELSE {FieldResponse(r, "channels") :
                 r \in GetChannelPerformance(ApiDateRange(start_date, end_date),
                                             filters)},
         PerformanceStatements)

ApiStorePerformanceOutcomes(start_date, end_date, channel_ids) ==
    LET filters == EndpointFilters(None, channel_ids)
    IN EndpointOutcomes(filters,
         IF filters = Raised THEN {}
         ELSE {FieldResponse(r, "stores") :
                 r \in GetStorePerformance(ApiDateRange(start_date, end_date),
                                           filters)},
         PerformanceStatements)

ApiCustomerRetentionOutcomes(min_orders, days_inactive, clock, later) ==
    EndpointOutcomes(Some(NoDimensions),
        {ListResponse(r, "customers") :
           r \in GetCustomerRetention(min_orders, days_inactive, clock, later)},
        RetentionStatements)

----------------------------------------------------------------------------
(* api/v1/metadata.py and the health check of backend/app/main.py.         *)

(* The orders in which a query without ORDER BY may return the rows S.     *)
AnyOrder(S) == OrderedDesc(S, [x \in S |-> 0])

StoreInfo(st) ==
    [id |-> st.id, name |-> st.name, city |-> st.city, state |-> st.state,
     is_active |-> st.is_active]

ChannelInfo(c) ==
    [id |-> c.id, name |-> c.name, type |-> c.type,
     description |-> c.description]

CategoryInfo(c) == [id |-> c.id, name |-> c.name, type |-> c.type]

(* The responses GET /metadata may give.                                   *)
GetMetadata ==
    {OkResponse([stores |-> [i \in 1..Len(st) |-> StoreInfo(st[i])],
                 channels |-> [i \in 1..Len(ch) |-> ChannelInfo(ch[i])],
                 categories |-> [i \in 1..Len(ca) |-> CategoryInfo(ca[i])]]) :
        st \in AnyOrder({x \in stores : x.is_active = TRUE}),
        ch \in AnyOrder(channels),
        ca \in AnyOrder({x \in categories : x.deleted_at = Null})}

MetadataStatementsWithDelete == <<"SELECT", "DELETE", "SELECT">>

MetadataStatements == <<"SELECT", "SELECT", "SELECT">>

(* GET /stores: active_only: bool = True                                   *)
GetStores(active_only) ==
    {OkResponse([i \in 1..Len(st) |-> StoreInfo(st[i])]) :
        st \in AnyOrder({x \in stores : active_only => x.is_active = TRUE})}

(* GET /channels                                                           *)
GetChannels ==
    {OkResponse([i \in 1..Len(ch) |-> ChannelInfo(ch[i])]) :
        ch \in AnyOrder(channels)}

(* GET /categories                                                         *)
GetCategories ==
    {OkResponse([i \in 1..Len(ca) |-> CategoryInfo(ca[i])]) :
        ca \in AnyOrder({x \in categories : x.deleted_at = Null})}

ProductInfo(p) ==
    [id |-> p.id, name |-> p.name, category_id |-> p.category_id,
     category_name |-> None]

(* Variant: a category id is a criterion whenever it is given.             *)
GivenInt(o) == o # None

(* if category_id: an absent id and the id 0 are both falsy.               *)
TruthyInt(o) == o # None /\ Val(o) # 0

(* GET /products: category_id: int = None, limit: int = 100.  The store    *)
(* refuses a negative LIMIT.                                               *)
GetProducts(category_id, limit) ==
    LET q == {x \in products :
                /\ x.deleted_at = Null
                /\ TruthyInt(category_id) => x.category_id = category_id}
    IN IF limit < 0 THEN {InternalServerError}
       ELSE {OkResponse([i \in 1..Len(Limit(res, limit)) |->
                           ProductInfo(res[i])]) : res \in AnyOrder(q)}

(* GET /health of the production app: answers without the store.           *)
HealthCheck == OkResponse([status |-> "healthy"])

----------------------------------------------------------------------------
(* The prototype app (src/app): raw SQL sent through the shared handle     *)
(* "database", connected at startup.                                       *)

(* Lower case of the texts the tables and the requests hold.               *)
Lower(text) ==
    CASE text = "COMPLETED" -> "completed"
      [] text = "Completed" -> "completed"
      [] text = "CANCELLED" -> "cancelled"
      [] text = "iFood" -> "ifood"
      [] text = "Presencial" -> "presencial"
      [] text = "FOOD" -> "food"
      [] OTHER -> text

(* The pairs <<text, part>> of lower-case texts with part inside text.     *)
ProperParts == {<<"ifood", "food">>}

(* text ILIKE pattern, a pattern without wildcards.                        *)
ILike(text, pattern) == Lower(text) = Lower(pattern)

(* text ILIKE '%part%'                                                     *)
ILikeContains(text, part) ==
    ILike(text, part) \/ <<Lower(text), Lower(part)>> \in ProperParts

(* FROM sales s JOIN product_sales ps JOIN products p JOIN channels c      *)
(* WHERE s.sale_status_desc ILIKE 'completed' [AND c.name ILIKE :channel]  *)
(* [AND EXTRACT(DOW FROM s.created_at) = :dow]                             *)
(* [AND EXTRACT(HOUR FROM s.created_at) BETWEEN :hs AND :he]               *)
TopProductsQuery(channel, dow, hour_start, hour_end) ==
    {x \in [s : sales, ps : product_sales, p : products, c : channels] :
        /\ x.ps.sale_id = x.s.id
        /\ x.p.id = x.ps.product_id
        /\ x.c.id = x.s.channel_id
        /\ ILike(x.s.sale_status_desc, "completed")
        /\ (channel # None /\ Val(channel) # "") =>
               ILikeContains(x.c.name, Val(channel))
        /\ dow # None => ExtractDow(x.s.created_at) = Val(dow)
        /\ (hour_start # None /\ hour_end # None) =>
               /\ Val(hour_start) <= ExtractHour(x.s.created_at)
               /\ ExtractHour(x.s.created_at) <= Val(hour_end)}

(* GROUP BY p.id, p.name ORDER BY quantity DESC LIMIT :limit               *)
TopProductsRows(channel, dow, hour_start, hour_end, limit) ==
    LET q == TopProductsQuery(channel, dow, hour_start, hour_end)
        rowsOf == [h \in {x.p : x \in q} |-> {x \in q : x.p = h}]
        items == {[product_id |-> h.id, product_name |-> h.name,
                   quantity |-> SumFn([x \in rowsOf[h] |-> x.ps.quantity],
                                      rowsOf[h])] : h \in DOMAIN rowsOf}
    IN {Limit(res, limit) :
          res \in OrderedDesc(items, [i \in items |-> i.quantity])}

(* database.fetch_all raises when the handle is not connected.             *)
TopProductsOutcomes(channel, dow, hour_start, hour_end, limit) ==
    IF is_connected
    THEN {[response |-> OkResponse(rows), issued |-> <<"SELECT">>] :
            rows \in TopProductsRows(channel, dow, hour_start, hour_end, limit)}
    ELSE {[response |-> InternalServerError, issued |-> <<>>]}

(* The prototype's GET /analytics/ticket-trend: the average ticket of the  *)
(* completed sales by channel or store and day, oldest day first.          *)

(* group_by: str = Query("channel", regex="^(channel|store)$")             *)
GroupByOk(group_by) == QueryDefault(group_by, "channel") \in {"channel", "store"}

TicketTrendQuery(start, end) ==
    {x \in sales :
        /\ ILike(x.sale_status_desc, "completed")
        /\ start # None => x.created_at >= Val(start)
        /\ end # None => x.created_at <= Val(end)}

TicketTrendRows(group_by, start, end) ==
    LET q == TicketTrendQuery(start, end)
        headOf == [x \in q |->
                     [group_id |-> IF group_by = "channel" THEN x.channel_id
                                   ELSE x.store_id,
                      period_start |-> CastDate(x.created_at)]]
        heads == {headOf[x] : x \in q}
        rowsOf == [h \in heads |-> {x \in q : headOf[x] = h}]
    IN {[i \in 1..Len(res) |->
           [group_id |-> res[i].group_id,
            period_start |-> IsoFormat(res[i].period_start, TRUE),
            avg_ticket |-> Val(SqlAvg([x \in rowsOf[res[i]] |-> x.total_amount],
                                      rowsOf[res[i]]))]] :
        res \in OrderedAsc(heads, [h \in heads |-> h.period_start])}

TicketTrendOutcomes(group_by, start, end) ==
    Validated(GroupByOk(group_by),
        IF is_connected
        THEN {[response |-> OkResponse(rows), issued |-> <<"SELECT">>] :
                rows \in TicketTrendRows(QueryDefault(group_by, "channel"),
                                         start, end)}
        ELSE {[response |-> InternalServerError, issued |-> <<>>]})

(* The prototype's GET /analytics/low-margin-products.  Its statement      *)
(* reads p.cost, a column the products table of models.py does not have:   *)
(* the store refuses the statement unless the column has been added.       *)
HasCostColumn == \A p \in products : "cost" \in DOMAIN p

(* FROM product_sales ps JOIN products p JOIN sales s ON ... ILIKE         *)
(* 'completed'                                                             *)
LowMarginQuery ==
    {x \in [ps : product_sales, p : products, s : sales] :
        /\ x.p.id = x.ps.product_id
        /\ x.s.id = x.ps.sale_id
        /\ ILike(x.s.sale_status_desc, "completed")}

(* quantity * COALESCE(p.cost, 0)                                          *)
EstimatedCost(x) ==
    x.ps.quantity * (IF x.p.cost = Null THEN 0 ELSE Val(x.p.cost))

LowMarginItem(head, rows) ==
    LET revenue == SumFn([x \in rows |-> x.ps.total_price], rows)
        est_cost == SumFn([x \in rows |-> EstimatedCost(x)], rows)
    IN [product_id |-> head.id, product_name |-> head.name,
        revenue |-> revenue, est_cost |-> est_cost,
        gross_profit |-> revenue - est_cost]

(* ORDER BY gross_profit ASC                                               *)
LowMarginOrder(items) == OrderedAsc(items, [i \in items |-> i.gross_profit])

(* GROUP BY p.id, p.name ORDER BY gross_profit ASC LIMIT :limit            *)
LowMarginRows(limit) ==
    LET q == LowMarginQuery
        rowsOf == [h \in {x.p : x \in q} |-> {x \in q : x.p = h}]
        items == {LowMarginItem(h, rowsOf[h]) : h \in DOMAIN rowsOf}
    IN {Limit(res, limit) : res \in LowMarginOrder(items)}

LowMarginOutcomes(limit) ==
    IF ~is_connected
    THEN {[response |-> InternalServerError, issued |-> <<>>]}
    ELSE IF ~HasCostColumn
    THEN {[response |-> InternalServerError, issued |-> <<"SELECT">>]}
    ELSE {[response |-> OkResponse(rows), issued |-> <<"SELECT">>] :
            rows \in LowMarginRows(limit)}

(* The prototype's GET /analytics/churned-customers.                       *)

(* FROM customers c JOIN sales s ON s.customer_id = c.id AND               *)
(* s.sale_status_desc ILIKE 'completed' GROUP BY c.id, c.customer_name     *)
ChurnedGroups ==
    LET ordersOf == [c \in customers |->
                       {s \in sales : /\ s.customer_id = Some(c.id)
                                      /\ ILike(s.sale_status_desc, "completed")}]
    IN {[customer_id |-> c.id, customer_name |-> c.customer_name,
         last_order_at |-> Some(SetMax({s.created_at : s \in ordersOf[c]})),
         orders_count |-> SqlCount(ordersOf[c])] :
          c \in {k \in customers : ordersOf[k] # {}}}

(* HAVING COUNT(s.id) >= :min_orders AND                                   *)
(* MAX(s.created_at) < (NOW() - (:days || ' days')::interval)              *)
ChurnedHaving(g, min_orders, days, clock) ==
    g.orders_count >= min_orders /\ Val(g.last_order_at) < clock - days

(* The lists the statement may return: ORDER BY last_order_at DESC.        *)
ChurnedRows(min_orders, days, clock) ==
    LET listed == {g \in ChurnedGroups :
                     ChurnedHaving(g, min_orders, days, clock)}
    IN OrderedDesc(listed, [g \in listed |-> Val(g.last_order_at)])

(* :days stands in (:days || ' days'), a text operand, and the handler     *)
(* gives it an int.  A driver that sends typed parameters (asyncpg, the    *)
(* one DATABASE_URL names) refuses the value before the statement runs; a  *)
(* driver that writes the value into the statement accepts it.             *)
DaysBindOutcomes == {"refused", "accepted"}

(* response_model=List[ChurnedCustomer] with last_order_at: Optional[str]: *)
(* the column is a timestamp, never a str, so a row passes only with       *)
(* last_order_at NULL.                                                     *)
ChurnedCustomerOk(row) == row.last_order_at = Null

ChurnedResponse(rows) ==
    IF \A i \in DOMAIN rows : ChurnedCustomerOk(rows[i])
    THEN OkResponse(rows) ELSE InternalServerError

ChurnedCustomersOutcomes(min_orders, days) ==
    IF ~is_connected
    THEN {[response |-> InternalServerError, issued |-> <<>>]}
    ELSE UNION {IF bind = "refused"
                THEN {[response |-> InternalServerError, issued |-> <<>>]}
                ELSE {[response |-> ChurnedResponse(rows),
                       issued |-> <<"SELECT">>] :
                        rows \in ChurnedRows(min_orders, days, now)} :
                  bind \in DaysBindOutcomes}

----------------------------------------------------------------------------
(* The statements the two query layers build.  A statement is its text, a  *)
(* sequence of pieces, and the values bound to its placeholders.           *)

NoClause == [text |-> <<>>, params |-> <<>>]

(* A piece of text the code writes itself.                                 *)
Fragment(piece) == [text |-> <<piece>>, params |-> <<>>]

(* Variant: the value written into the text.                               *)
Interpolated(value) == [text |-> <<ToString(value)>>, params |-> <<>>]

(* A bind parameter: a placeholder in the text, the value beside it.  A    *)
(* list given to in_() is one parameter.                                   *)
BindParam(value) == [text |-> <<"?">>, params |-> <<value>>]

RECURSIVE JoinAll(_)
JoinAll(parts) ==
    IF parts = <<>> THEN NoClause
    ELSE LET rest == JoinAll(Tail(parts))
         IN [text |-> Head(parts).text \o rest.text,
             params |-> Head(parts).params \o rest.params]

(* query.filter(column <op> value)                                         *)
FilterClause(column_op, value) ==
    JoinAll(<<Fragment("AND"), Fragment(column_op), BindParam(value)>>)

(* The WHERE conjuncts _apply_filters chains.                              *)
ApplyFiltersStatement(date_range, filters) ==
    LET dr == IF date_range = None THEN NoDateRange ELSE Val(date_range)
        f == IF filters = None THEN NoDimensions ELSE Val(filters)
        ListClause(column, o) ==
            IF TruthyList(o) THEN FilterClause(column, Val(o)) ELSE NoClause
    IN JoinAll(<<
         IF dr.start_date # None
         THEN FilterClause("sales.created_at >=", Val(dr.start_date))
         ELSE NoClause,
         IF dr.end_date # None
         THEN FilterClause("sales.created_at <=", Val(dr.end_date))
         ELSE NoClause,
         ListClause("sales.store_id IN", f.store_ids),
         ListClause("sales.channel_id IN", f.channel_ids),
         ListClause("sales.sale_status_desc IN", f.sale_status),
         ListClause("sales.customer_id IN", f.customer_ids)>>)

(* date_group of get_time_series: func.date_trunc binds its first          *)
(* argument.                                                               *)
DateGroupStatement(period) ==
    CASE period = "weekly" ->
            JoinAll(<<Fragment("date_trunc("), BindParam("week"),
                      Fragment(", sales.created_at)")>>)
      [] period = "monthly" ->
            JoinAll(<<Fragment("date_trunc("), BindParam("month"),
                      Fragment(", sales.created_at)")>>)
      [] OTHER -> Fragment("CAST(sales.created_at AS DATE)")

(* The statement of get_time_series.                                       *)
TimeSeriesStatement(date_range, filters, period) ==
    JoinAll(<<Fragment("SELECT"), DateGroupStatement(period),
              Fragment("AS date, count(sales.id), sum(sales.total_amount), avg(sales.total_amount) FROM sales WHERE true"),
              ApplyFiltersStatement(date_range, filters),
              FilterClause("sales.sale_status_desc =", "COMPLETED"),
              Fragment("GROUP BY"), DateGroupStatement(period),
              Fragment("ORDER BY"), DateGroupStatement(period)>>)

(* The statement of the prototype's top_products; :channel is bound to the *)
(* text between two % signs.                                               *)
TopProductsStatement(channel, dow, hour_start, hour_end, limit) ==
    JoinAll(<<
      Fragment("SELECT p.id, p.name, SUM(ps.quantity) AS quantity FROM sales s JOIN product_sales ps JOIN products p JOIN channels c WHERE s.sale_status_desc ILIKE 'completed'"),
      IF TruthyStr(channel)
      THEN JoinAll(<<Fragment("AND c.name ILIKE"),
                     BindParam(<<"%", Val(channel), "%">>)>>)
      ELSE NoClause,
      IF dow # None
      THEN JoinAll(<<Fragment("AND EXTRACT(DOW FROM s.created_at) ="),
                     BindParam(Val(dow))>>)
      ELSE NoClause,
      IF hour_start # None /\ hour_end # None
      THEN JoinAll(<<Fragment("AND EXTRACT(HOUR FROM s.created_at) BETWEEN"),
                     BindParam(Val(hour_start)), Fragment("AND"),
                     BindParam(Val(hour_end))>>)
      ELSE NoClause,
      Fragment("GROUP BY p.id, p.name ORDER BY quantity DESC LIMIT"),
      BindParam(limit)>>)

(* The statement of the prototype's ticket_trend: the text names the       *)
(* column the code picks for the validated group_by.                       *)
TicketTrendStatement(group_by, start, end) ==
    LET column == IF group_by = "channel" THEN "channel_id" ELSE "store_id"
    IN JoinAll(<<
         Fragment("SELECT"), Fragment(column),
         Fragment("as group_id, DATE_TRUNC('day', s.created_at) AS period_start, AVG(s.total_amount) as avg_ticket FROM sales s WHERE s.sale_status_desc ILIKE 'completed'"),
         IF start # None
         THEN JoinAll(<<Fragment("AND s.created_at >="), BindParam(Val(start))>>)
         ELSE NoClause,
         IF end # None
         THEN JoinAll(<<Fragment("AND s.created_at <="), BindParam(Val(end))>>)
         ELSE NoClause,
         Fragment("GROUP BY"), Fragment(column),
         Fragment(", DATE_TRUNC('day', s.created_at) ORDER BY period_start")>>)

----------------------------------------------------------------------------
(* The store executes the statements a handler issues.  A SELECT leaves a  *)
(* table as it is; a DELETE would empty it.                                *)

Execute(kind, tbl) == IF kind = "SELECT" THEN tbl ELSE {}

RECURSIVE ExecuteAll(_, _)
ExecuteAll(stmts, tbl) ==
    IF stmts = <<>> THEN tbl
    ELSE ExecuteAll(Tail(stmts), Execute(Head(stmts), tbl))

StoreAfter(stmts) ==
    /\ sales' = ExecuteAll(stmts, sales)
    /\ product_sales' = ExecuteAll(stmts, product_sales)
    /\ products' = ExecuteAll(stmts, products)
    /\ categories' = ExecuteAll(stmts, categories)
    /\ customers' = ExecuteAll(stmts, customers)
    /\ stores' = ExecuteAll(stmts, stores)
    /\ channels' = ExecuteAll(stmts, channels)
    /\ delivery_addresses' = ExecuteAll(stmts, delivery_addresses)

----------------------------------------------------------------------------
(* Arguments of _apply_filters.                                            *)

OptTimes == {None} \cup {Some(t) : t \in Times}

DateRangeFilters == [start_date : OptTimes, end_date : OptTimes]

(* Id lists: order and repetition do not matter to IN, so the lists are    *)
(* the ascending ones.                                                     *)
DimensionFilters ==
    [store_ids : {None, Some(<<>>), Some(<<1>>), Some(<<1, 2>>)},
     channel_ids : {None, Some(<<>>), Some(<<2>>)},
     product_ids : {None}, category_ids : {None},
     customer_ids : {None, Some(<<>>), Some(<<1>>)},
     sale_status : {None, Some(<<>>), Some(<<"COMPLETED">>)}]

OptDateRanges == {None} \cup {Some(d) : d \in DateRangeFilters}
OptDimensionFilters == {None} \cup {Some(f) : f \in DimensionFilters}

NoRequest == [op |-> "none"]
NoResponse == [status |-> 0]

(* The service handles one request at a time from the idle state; the      *)
(* response is handed to the caller before the next request is taken.      *)
Idle == request = NoRequest

Deliver ==
    /\ ~Idle
    /\ request' = NoRequest
    /\ response' = NoResponse
    /\ issued' = <<>>
    /\ selected' = {}
    /\ UNCHANGED <<tables, now, is_connected>>

----------------------------------------------------------------------------
(* SpecFilter: _apply_filters over every small sales table.                *)

FilterRows ==
    [store_id : StoreIds, channel_id : ChannelIds,
     customer_id : {Null, Some(1)}, created_at : Times,
     sale_status_desc : {"COMPLETED", "CANCELLED"}, total_amount : {10},
     total_discount : {Some(0)}, delivery_fee : {Some(0)},
     production_seconds : {Null}, delivery_seconds : {Null}]

InitFilter ==
    /\ \E ts \in SeqsUpTo(FilterRows, MaxFilterSales) :
          Ordered(ts) /\ sales = SalesTable(ts)
    /\ product_sales = {}
    /\ products = {}
    /\ categories = {}
    /\ customers = {}
    /\ stores = {}
    /\ channels = {}
    /\ delivery_addresses = {}
    /\ now = 3
    /\ is_connected = TRUE
    /\ request = NoRequest
    /\ response = NoResponse
    /\ issued = <<>>
    /\ selected = {}

(* A call of _apply_filters on the base query over Sale.  It builds a      *)
(* query and sends nothing to the store.                                   *)
CallApplyFilters ==
    /\ Idle
    /\ \E dr \in OptDateRanges, f \in OptDimensionFilters :
        /\ request' = [op |-> "_apply_filters", date_range |-> dr, filters |-> f]
        /\ selected' = SaleIds(ApplyFilters(SaleQuery(sales), dr, f))
        /\ response' = NoResponse
        /\ issued' = <<>>
        /\ UNCHANGED <<tables, now, is_connected>>

NextFilter == CallApplyFilters \/ Deliver

SpecFilter == InitFilter /\ [][NextFilter]_vars

----------------------------------------------------------------------------
(* Reference rows and the arguments of the service calls.                  *)

ChannelRow(i) ==
    [id |-> i, name |-> IF i = 1 THEN "iFood" ELSE "Presencial",
     type |-> IF i = 1 THEN "D" ELSE "P", description |-> Null]

StoreRow(i) ==
    [id |-> i, name |-> IF i = 1 THEN "Loja Centro" ELSE "Loja Norte",
     city |-> "Sao Paulo", state |-> "SP", is_active |-> (i = 1)]

AllChannels == {ChannelRow(i) : i \in ChannelIds}
AllStores == {StoreRow(i) : i \in StoreIds}

(* The date ranges and dimension filters the service methods are called    *)
(* with: no filter, each criterion on its own, and two at once.            *)
ServiceDateRanges ==
    {None,
     Some([start_date |-> Some(2), end_date |-> None]),
     Some([start_date |-> None, end_date |-> Some(1)]),
     Some([start_date |-> Some(2), end_date |-> Some(1)])}

ServiceFilters ==
    {None,
     Some([NoDimensions EXCEPT !.store_ids = Some(<<1>>)]),
     Some([NoDimensions EXCEPT !.channel_ids = Some(<<2>>)]),
     Some([NoDimensions EXCEPT !.sale_status = Some(<<"CANCELLED">>)]),
     Some([NoDimensions EXCEPT !.store_ids = Some(<<1, 2>>),
                               !.channel_ids = Some(<<1>>)])}

InitIdle ==
    /\ is_connected = TRUE
    /\ request = NoRequest
    /\ response = NoResponse
    /\ issued = <<>>
    /\ selected = {}

----------------------------------------------------------------------------
(* Calls of the service methods.                                           *)

CallSalesOverview ==
    /\ Idle
    /\ \E dr \in ServiceDateRanges, f \in ServiceFilters :
        /\ request' = [op |-> "get_sales_overview", date_range |-> dr,
                       filters |-> f]
        /\ selected' = SaleIds(ApplyFilters(SaleQuery(sales), dr, f))
        /\ response' = GetSalesOverview(dr, f)
        /\ issued' = OverviewStatements
        /\ StoreAfter(OverviewStatements)
        /\ UNCHANGED <<now, is_connected>>

CallChannelPerformance ==
    /\ Idle
    /\ \E dr \in ServiceDateRanges, f \in ServiceFilters :
        /\ request' = [op |-> "get_channel_performance", date_range |-> dr,
                       filters |-> f]
        /\ selected' = SaleIds(ApplyFilters(SaleJoinChannel, dr, f))
        /\ response' \in GetChannelPerformance(dr, f)
        /\ issued' = PerformanceStatements
        /\ StoreAfter(PerformanceStatements)
        /\ UNCHANGED <<now, is_connected>>

CallStorePerformance ==
    /\ Idle
    /\ \E dr \in ServiceDateRanges, f \in ServiceFilters :
        /\ request' = [op |-> "get_store_performance", date_range |-> dr,
                       filters |-> f]
        /\ selected' = SaleIds(ApplyFilters(SaleJoinStore, dr, f))
        /\ response' \in GetStorePerformance(dr, f)
        /\ issued' = PerformanceStatements
        /\ StoreAfter(PerformanceStatements)
        /\ UNCHANGED <<now, is_connected>>

----------------------------------------------------------------------------
(* SpecOverview: get_sales_overview over every small sales table.          *)

MaxOverviewSales == 2

OverviewRows ==
    [store_id : StoreIds, channel_id : {1},
     customer_id : {Null}, created_at : Times,
     sale_status_desc : {"COMPLETED", "CANCELLED", "completed"},
     total_amount : {0, 10},
     total_discount : {Null, Some(2)}, delivery_fee : {Some(3)},
     production_seconds : {Null}, delivery_seconds : {Null}]

InitOverview ==
    /\ \E ts \in SeqsUpTo(OverviewRows, MaxOverviewSales) :
          Ordered(ts) /\ sales = SalesTable(ts)
    /\ product_sales = {}
    /\ products = {}
    /\ categories = {}
    /\ customers = {}
    /\ stores = AllStores
    /\ channels = AllChannels
    /\ delivery_addresses = {}
    /\ now = 3
    /\ InitIdle

NextOverview == CallSalesOverview \/ Deliver

SpecOverview == InitOverview /\ [][NextOverview]_vars

----------------------------------------------------------------------------
(* SpecPerformance: channel and store performance over every small sales   *)
(* table, with and without the channel and store rows the sales refer to.  *)

MaxPerformanceSales == 2

PerformanceRows ==
    [store_id : StoreIds, channel_id : ChannelIds,
     customer_id : {Null}, created_at : Times,
     sale_status_desc : {"COMPLETED", "CANCELLED"},
     total_amount : {0, 10},
     total_discount : {Some(0)}, delivery_fee : {Some(0)},
     production_seconds : {Null}, delivery_seconds : {Null}]

InitPerformance ==
    /\ \E ts \in SeqsUpTo(PerformanceRows, MaxPerformanceSales) :
          Ordered(ts) /\ sales = SalesTable(ts)
    /\ \E last \in {1, 2} :
          /\ channels = {ChannelRow(i) : i \in 1..last}
          /\ stores = {StoreRow(i) : i \in 1..last}
    /\ product_sales = {}
    /\ products = {}
    /\ categories = {}
    /\ customers = {}
    /\ delivery_addresses = {}
    /\ now = 3
    /\ InitIdle

NextPerformance == CallChannelPerformance \/ CallStorePerformance \/ Deliver

SpecPerformance == InitPerformance /\ [][NextPerformance]_vars

----------------------------------------------------------------------------
(* SpecRanking: get_product_ranking over small tables of sales and line    *)
(* items of two products in two categories.                                *)

MaxRankingSales == 2
MaxLineItems == 2

ProductIds == {1, 2}

ProductRow(i) ==
    [id |-> i, name |-> IF i = 1 THEN "X-Burger" ELSE "Refrigerante",
     category_id |-> Some(i), deleted_at |-> Null]

CategoryRow(i) ==
    [id |-> i, name |-> IF i = 1 THEN "Lanches" ELSE "Bebidas",
     type |-> "P", deleted_at |-> Null]

AllProducts == {ProductRow(i) : i \in ProductIds}
AllCategories == {CategoryRow(i) : i \in ProductIds}

RankingRows ==
    [store_id : StoreIds, channel_id : {1},
     customer_id : {Null}, created_at : {1},
     sale_status_desc : {"COMPLETED", "CANCELLED"}, total_amount : {10},
     total_discount : {Some(0)}, delivery_fee : {Some(0)},
     production_seconds : {Null}, delivery_seconds : {Null}]

(* The line items of the sales 1..n.                                       *)
LineItems(n) ==
    [sale_id : 1..n, product_id : ProductIds, quantity : {1, 2},
     base_price : {10}, total_price : {10, 12}]

LineItemKey(l) ==
    ((l.sale_id * 4 + l.product_id) * 4 + l.quantity) * 16 + l.total_price

MkProductSale(id, l) ==
    [id |-> id, sale_id |-> l.sale_id, product_id |-> l.product_id,
     quantity |-> l.quantity, base_price |-> l.base_price,
     total_price |-> l.total_price]

RankingFilters ==
    {None,
     Some([NoDimensions EXCEPT !.store_ids = Some(<<1>>)]),
     Some([NoDimensions EXCEPT !.product_ids = Some(<<1>>)]),
     Some([NoDimensions EXCEPT !.category_ids = Some(<<2>>)])}

InitRanking ==
    /\ \E ts \in SeqsUpTo(RankingRows, MaxRankingSales) :
          /\ Ordered(ts)
          /\ sales = SalesTable(ts)
          /\ \E ls \in SeqsUpTo(LineItems(Len(ts)), MaxLineItems) :
                /\ \A i \in 1..(Len(ls) - 1) :
                      LineItemKey(ls[i]) <= LineItemKey(ls[i + 1])
                /\ product_sales = {MkProductSale(i, ls[i]) : i \in 1..Len(ls)}
    /\ products = AllProducts
    /\ categories = AllCategories
    /\ customers = {}
    /\ stores = AllStores
    /\ channels = AllChannels
    /\ delivery_addresses = {}
    /\ now = 3
    /\ InitIdle

CallProductRanking ==
    /\ Idle
    /\ \E dr \in {None}, f \in RankingFilters, limit \in {1, 20} :
        /\ request' = [op |-> "get_product_ranking", date_range |-> dr,
                       filters |-> f, limit |-> limit]
        /\ selected' = SaleIds(ApplyFilters(LineItemJoin, dr, f))
        /\ response' \in GetProductRanking(dr, f, limit)
        /\ issued' = RankingStatements
        /\ StoreAfter(RankingStatements)
        /\ UNCHANGED <<now, is_connected>>

NextRanking == CallProductRanking \/ Deliver

SpecRanking == InitRanking /\ [][NextRanking]_vars

----------------------------------------------------------------------------
(* SpecRetention: get_customer_retention over sales of two registered      *)
(* customers placed 29, 30 and 31 days before the clock.                   *)

MaxRetentionSales == 3
Today == 40
OrderTimes == {Today - 31, Today - 30, Today - 29}

CustomerRow(i) ==
    [id |-> i, customer_name |-> Some(IF i = 1 THEN "Ana" ELSE "Bruno"),
     email |-> IF i = 1 THEN Some("ana@example.com") ELSE Null,
     phone_number |-> Null]

(* sales.customer_id references customers.id, so every customer a sale     *)
(* names has a row.                                                        *)
AllCustomers == {CustomerRow(i) : i \in CustomerIds}

(* Sales of the registered customers, and an anonymous completed sale.     *)
RetentionRows ==
    [store_id : {1}, channel_id : {1},
     customer_id : {Some(c) : c \in CustomerIds},
     created_at : OrderTimes,
     sale_status_desc : {"COMPLETED", "CANCELLED"}, total_amount : {10, 20},
     total_discount : {Some(0)}, delivery_fee : {Some(0)},
     production_seconds : {Null}, delivery_seconds : {Null}]
    \cup
    [store_id : {1}, channel_id : {1}, customer_id : {Null},
     created_at : {Today - 31},
     sale_status_desc : {"COMPLETED"}, total_amount : {10},
     total_discount : {Some(0)}, delivery_fee : {Some(0)},
     production_seconds : {Null}, delivery_seconds : {Null}]

InitRetention ==
    /\ \E ts \in SeqsUpTo(RetentionRows, MaxRetentionSales) :
          Ordered(ts) /\ sales = SalesTable(ts)
    /\ product_sales = {}
    /\ products = {}
    /\ categories = {}
    /\ customers = AllCustomers
    /\ stores = AllStores
    /\ channels = AllChannels
    /\ delivery_addresses = {}
    /\ now = Today
    /\ InitIdle

CallCustomerRetention ==
    /\ Idle
    /\ \E min_orders \in {0, 3}, days_inactive \in {29, 30},
          later \in {now, now + 1} :
        /\ request' = [op |-> "get_customer_retention",
                       min_orders |-> min_orders,
                       days_inactive |-> days_inactive]
        /\ selected' = {s.id : s \in {t \in sales :
                                        t.customer_id # Null /\ IsCompleted(t)}}
        /\ response' \in GetCustomerRetention(min_orders, days_inactive,
                                              now, later)
        /\ issued' = RetentionStatements
        /\ StoreAfter(RetentionStatements)
        /\ UNCHANGED <<now, is_connected>>

NextRetention == CallCustomerRetention \/ Deliver

SpecRetention == InitRetention /\ [][NextRetention]_vars

----------------------------------------------------------------------------
(* Spec: the endpoints of the production API and of the prototype app,     *)
(* called in any order over one store.                                     *)

MaxApiSales == 1
MaxApiLineItems == 1

ApiRows ==
    [store_id : StoreIds, channel_id : ChannelIds,
     customer_id : {Some(1)}, created_at : {Today - 31},
     sale_status_desc : {"COMPLETED", "CANCELLED", "completed"},
     total_amount : {10},
     total_discount : {Some(0)}, delivery_fee : {Some(0)},
     production_seconds : {Null}, delivery_seconds : {Null}]

ApiLineItems(n) ==
    [sale_id : 1..n, product_id : ProductIds, quantity : {1},
     base_price : {10}, total_price : {10}]

(* The id lists sent in query strings.                                     *)
RawIdLists ==
    {None, Some(<<>>), Some(<<"1">>), Some(<<"1", "2">>),
     Some(<<"1", ",", "2">>), Some(<<"1", ",", "a">>), Some(<<"2", ",">>)}

RawChannelLists == {None, Some(<<"2">>), Some(<<"x">>)}

ApiDates == {None, Some(Today - 30)}

Init ==
    /\ \E ts \in SeqsUpTo(ApiRows, MaxApiSales) :
          /\ Ordered(ts)
          /\ sales = SalesTable(ts)
          /\ \E ls \in SeqsUpTo(ApiLineItems(Len(ts)), MaxApiLineItems) :
                /\ \A i \in 1..(Len(ls) - 1) :
                      LineItemKey(ls[i]) <= LineItemKey(ls[i + 1])
                /\ product_sales = {MkProductSale(i, ls[i]) : i \in 1..Len(ls)}
    /\ products = AllProducts
    /\ categories = AllCategories
    /\ customers = AllCustomers
    /\ stores = AllStores
    /\ channels = AllChannels
    /\ delivery_addresses = {}
    /\ now = Today
    /\ InitIdle

(* The limits sent: none, the least, and those around the bounds.          *)
ApiLimits(max) == {None, Some(0), Some(1), Some(max), Some(max + 1)}

(* The handler answers o.response after sending o.issued.                  *)
Answer(o) ==
    /\ response' = o.response
    /\ issued' = o.issued
    /\ StoreAfter(o.issued)
    /\ selected' = {}
    /\ UNCHANGED <<now, is_connected>>

ApiSalesOverview ==
    /\ Idle
    /\ \E start_date \in ApiDates, store_ids \in RawIdLists,
          channel_ids \in RawChannelLists :
        /\ request' = [op |-> "GET /analytics/overview",
                       start_date |-> start_date, end_date |-> None,
                       store_ids |-> store_ids, channel_ids |-> channel_ids]
        /\ \E o \in ApiSalesOverviewOutcomes(start_date, None, store_ids,
                                            channel_ids) : Answer(o)

ApiProductRanking ==
    /\ Idle
    /\ \E store_ids \in RawIdLists, channel_ids \in {None},
          limit \in ApiLimits(100) :
        /\ request' = [op |-> "GET /analytics/products/ranking",
                       start_date |-> None, end_date |-> None,
                       store_ids |-> store_ids, channel_ids |-> channel_ids,
                       limit |-> limit]
        /\ \E o \in ApiProductRankingOutcomes(None, None, store_ids,
                                             channel_ids, limit) : Answer(o)

ApiProductMargin ==
    /\ Idle
    /\ \E store_ids \in {None, Some(<<"1">>)}, limit \in ApiLimits(200) :
        /\ request' = [op |-> "GET /analytics/products/margin",
                       start_date |-> None, end_date |-> None,
                       store_ids |-> store_ids, channel_ids |-> None,
                       limit |-> limit]
        /\ \E o \in ApiProductMarginOutcomes(None, None, store_ids, None,
                                            limit) : Answer(o)

ApiChannelPerformance ==
    /\ Idle
    /\ \E end_date \in ApiDates, store_ids \in RawIdLists :
        /\ request' = [op |-> "GET /analytics/channels/performance",
                       start_date |-> None, end_date |-> end_date,
                       store_ids |-> store_ids, channel_ids |-> None]
        /\ \E o \in ApiChannelPerformanceOutcomes(None, end_date, store_ids) :
              Answer(o)

ApiStorePerformance ==
    /\ Idle
    /\ \E channel_ids \in RawIdLists :
        /\ request' = [op |-> "GET /analytics/stores/performance",
                       start_date |-> None, end_date |-> None,
                       store_ids |-> None, channel_ids |-> channel_ids]
        /\ \E o \in ApiStorePerformanceOutcomes(None, None, channel_ids) :
              Answer(o)

ApiCustomerRetention ==
    /\ Idle
    /\ \E min_orders \in {1, 3}, days_inactive \in {1, 31},
          later \in {now, now + 1} :
        /\ request' = [op |-> "GET /analytics/customers/retention",
                       min_orders |-> min_orders,
                       days_inactive |-> days_inactive]
        /\ \E o \in ApiCustomerRetentionOutcomes(min_orders, days_inactive,
                                                now, later) : Answer(o)

ApiMetadata ==
    /\ Idle
    /\ request' = [op |-> "GET /metadata"]
    /\ \E r \in GetMetadata :
          Answer([response |-> r, issued |-> MetadataStatements])

ApiHealth ==
    /\ Idle
    /\ request' = [op |-> "GET /health"]
    /\ Answer([response |-> HealthCheck, issued |-> <<>>])

(* The prototype's GET /analytics/top-products.                            *)
TopProducts ==
    /\ Idle
    /\ \E channel \in {None, Some("FOOD")}, limit \in {1, 10} :
        /\ request' = [op |-> "GET /analytics/top-products",
                       channel |-> channel, limit |-> limit]
        /\ \E o \in TopProductsOutcomes(channel, None, None, None, limit) :
              Answer(o)

(* The shared handle of db.py.  database.connect() on a handle that is     *)
(* connected already returns at once in the releases of the library that   *)
(* skip it and raises "Already connected." in those that refuse it; on a   *)
(* handle that is not connected it connects, or raises when the store      *)
(* cannot be reached.  Each outcome is the error raised, if any, and the   *)
(* state of the handle afterwards.                                         *)
AlreadyConnected == "Already connected."
ConnectionRefused == "connection refused"

DatabaseConnect(connected) ==
    IF connected
    THEN {[error |-> None, is_connected |-> TRUE],
          [error |-> Some(AlreadyConnected), is_connected |-> TRUE]}
    ELSE {[error |-> None, is_connected |-> TRUE],
          [error |-> Some(ConnectionRefused), is_connected |-> FALSE]}

(* database.disconnect() closes the connection of a connected handle.      *)
DatabaseDisconnect(connected) == [error |-> None, is_connected |-> FALSE]

(* raise HTTPException(status_code=500, detail=str(e))                     *)
HttpException(code, detail) == [status |-> code, detail |-> detail]

(* Variant: the handler answers ok whatever the connect did.               *)
HealthAnswerAlwaysOk(c) ==
    [response |-> OkResponse([status |-> "ok"]),
     is_connected |-> c.is_connected]

(* try: connect, disconnect, return ok; except Exception as e: raise 500.  *)
(* c is the outcome of the connect.                                        *)
HealthAnswer(c) ==
    IF c.error # None
    THEN [response |-> HttpException(500, Val(c.error)),
          is_connected |-> c.is_connected]
    ELSE [response |-> OkResponse([status |-> "ok"]),
          is_connected |-> DatabaseDisconnect(c.is_connected).is_connected]

(* The prototype's GET /analytics/health on the shared handle.             *)
PrototypeHealth ==
    /\ Idle
    /\ request' = [op |-> "GET /analytics/health"]
    /\ \E c \in DatabaseConnect(is_connected) :
        /\ response' = HealthAnswer(c).response
        /\ is_connected' = HealthAnswer(c).is_connected
    /\ issued' = <<>>
    /\ selected' = {}
    /\ UNCHANGED <<tables, now>>

Next ==
    \/ ApiSalesOverview
    \/ ApiProductRanking
    \/ ApiProductMargin
    \/ ApiChannelPerformance
    \/ ApiStorePerformance
    \/ ApiCustomerRetention
    \/ ApiMetadata
    \/ ApiHealth
    \/ TopProducts
    \/ PrototypeHealth
    \/ Deliver

Spec == Init /\ [][Next]_vars

----------------------------------------------------------------------------
(* SpecLimit: the two endpoints with a limit over one completed sale with  *)
(* line items of two products.                                             *)

MaxLimitLineItems == 2

InitLimit ==
    /\ sales = SalesTable(<<[store_id |-> 1, channel_id |-> 1,
                             customer_id |-> Null, created_at |-> 1,
                             sale_status_desc |-> "COMPLETED",
                             total_amount |-> 10,
                             total_discount |-> Some(0),
                             delivery_fee |-> Some(0),
                             production_seconds |-> Null,
                             delivery_seconds |-> Null]>>)
    /\ \E ls \in SeqsUpTo(LineItems(1), MaxLimitLineItems) :
          /\ \A i \in 1..(Len(ls) - 1) :
                LineItemKey(ls[i]) <= LineItemKey(ls[i + 1])
          /\ product_sales = {MkProductSale(i, ls[i]) : i \in 1..Len(ls)}
    /\ products = AllProducts
    /\ categories = AllCategories
    /\ customers = AllCustomers
    /\ stores = AllStores
    /\ channels = AllChannels
    /\ delivery_addresses = {}
    /\ now = Today
    /\ InitIdle

NextLimit == ApiProductRanking \/ ApiProductMargin \/ Deliver

SpecLimit == InitLimit /\ [][NextLimit]_vars

----------------------------------------------------------------------------
(* SpecDelivery: get_delivery_performance over sales delivered to two      *)
(* places, one of them without a neighborhood name.                        *)

MaxDeliverySales == 5

(* All sequences of at most n elements of S in non-decreasing key order.   *)
RECURSIVE SortedSeqs(_, _, _)
SortedSeqs(S, key, n) ==
    IF n = 0 THEN {<<>>}
    ELSE LET shorter == SortedSeqs(S, key, n - 1)
             longest == {p \in shorter : Len(p) = n - 1}
         IN shorter \cup
            {Append(qx[1], qx[2]) :
                qx \in {y \in longest \X S :
                          Len(y[1]) = 0 \/ key[y[1][Len(y[1])]] <= key[y[2]]}}

Places == {"none", "Centro", "unnamed"}

(* A delivered sale that counts, and the ones that do not: cancelled,      *)
(* without a delivery time, of another store.                              *)
DeliveryRows ==
    {[store_id |-> k.store_id, channel_id |-> 1, customer_id |-> Null,
      created_at |-> 1, sale_status_desc |-> k.status, total_amount |-> 10,
      total_discount |-> Some(0), delivery_fee |-> Some(0),
      production_seconds |-> Some(300), delivery_seconds |-> k.seconds,
      place |-> place] :
        k \in {[store_id |-> 1, status |-> "COMPLETED", seconds |-> Some(600)],
               [store_id |-> 1, status |-> "CANCELLED", seconds |-> Some(600)],
               [store_id |-> 1, status |-> "COMPLETED", seconds |-> Null],
               [store_id |-> 2, status |-> "COMPLETED", seconds |-> Some(600)]},
        place \in Places}

PlaceRank(place) ==
    CASE place = "none" -> 0 [] place = "Centro" -> 1 [] OTHER -> 2

DeliveryRowKey(t) ==
    (RowKey(t) * 2 + (IF t.delivery_seconds = Null THEN 0 ELSE 1)) * 4
    + PlaceRank(t.place)

(* The delivery address of sale id, a row of delivery_addresses.           *)
MkDeliveryAddress(id, t) ==
    [id |-> id, sale_id |-> id,
     neighborhood |-> IF t.place = "unnamed" THEN Null ELSE Some(t.place),
     city |-> Some("Sao Paulo")]

InitDelivery ==
    /\ \E ts \in SortedSeqs(DeliveryRows,
                             [t \in DeliveryRows |-> DeliveryRowKey(t)],
                             MaxDeliverySales) :
          /\ sales = SalesTable(ts)
          /\ delivery_addresses =
                {MkDeliveryAddress(i, ts[i]) :
                    i \in {j \in 1..Len(ts) : ts[j].place # "none"}}
    /\ product_sales = {}
    /\ products = {}
    /\ categories = {}
    /\ customers = {}
    /\ stores = AllStores
    /\ channels = AllChannels
    /\ now = Today
    /\ InitIdle

EmptyDateRange == Some([start_date |-> Some(2), end_date |-> Some(1)])

CallDeliveryPerformance ==
    /\ Idle
    /\ \E dr \in {None, EmptyDateRange},
          f \in {None, Some([NoDimensions EXCEPT !.store_ids = Some(<<1>>)])} :
        /\ request' = [op |-> "get_delivery_performance", date_range |-> dr,
                       filters |-> f]
        /\ selected' = SaleIds(ApplyFilters(SaleJoinDeliveryAddress, dr, f))
        /\ response' \in GetDeliveryPerformance(dr, f)
        /\ issued' = DeliveryStatements
        /\ StoreAfter(DeliveryStatements)
        /\ UNCHANGED <<now, is_connected>>

NextDelivery == CallDeliveryPerformance \/ Deliver

SpecDelivery == InitDelivery /\ [][NextDelivery]_vars

----------------------------------------------------------------------------
(* SpecHourly: the time series and the hourly performance, over sales made *)
(* at different hours of different days.                                   *)

MaxHourlySales == 3

(* Thursday 2023-01-05 13:00 and 20:00, Friday 2023-01-06 13:00 and        *)
(* Thursday 2023-02-02 13:00.                                              *)
Stamps == {4 * 24 + 13, 4 * 24 + 20, 5 * 24 + 13, 32 * 24 + 13}

HourlyRows ==
    {[store_id |-> k.store_id, channel_id |-> 1, customer_id |-> Null,
      created_at |-> k.created_at, sale_status_desc |-> k.status,
      total_amount |-> k.amount, total_discount |-> Some(0),
      delivery_fee |-> Some(0), production_seconds |-> Null,
      delivery_seconds |-> Null] :
        k \in [created_at : Stamps, store_id : {1}, status : {"COMPLETED"},
               amount : {10, 20}]
              \cup [created_at : {4 * 24 + 13}, store_id : {1, 2},
                    status : {"CANCELLED"}, amount : {10}]}

HourlyRowKey(t) ==
    ((t.created_at * 2 + t.store_id - 1) * 2
        + (IF t.sale_status_desc = "COMPLETED" THEN 0 ELSE 1)) * 2
    + t.total_amount \div 20

InitHourly ==
    /\ \E ts \in SortedSeqs(HourlyRows, [t \in HourlyRows |-> HourlyRowKey(t)],
                             MaxHourlySales) : sales = SalesTable(ts)
    /\ product_sales = {}
    /\ products = {}
    /\ categories = {}
    /\ customers = {}
    /\ delivery_addresses = {}
    /\ stores = AllStores
    /\ channels = AllChannels
    /\ now = 40 * 24
    /\ InitIdle

(* A date range that ends before it starts, both ends among the sales.     *)
InvertedDateRange ==
    Some([start_date |-> Some(5 * 24 + 13), end_date |-> Some(4 * 24 + 13)])

CallTimeSeries ==
    /\ Idle
    /\ \E dr \in {None, InvertedDateRange},
          period \in Periods \cup {"yearly"} :
        /\ request' = [op |-> "get_time_series", date_range |-> dr,
                       filters |-> None, period |-> period]
        /\ selected' = SaleIds(ApplyFilters(SaleQuery(sales), dr, None))
        /\ response' \in GetTimeSeries(dr, None, period)
        /\ issued' = TimeSeriesStatements
        /\ StoreAfter(TimeSeriesStatements)
        /\ UNCHANGED <<now, is_connected>>

CallHourlyPerformance ==
    /\ Idle
    /\ \E dr \in {None, InvertedDateRange},
          day_of_week \in {None, Some(4), Some(5)} :
        /\ request' = [op |-> "get_hourly_performance", date_range |-> dr,
                       filters |-> None, day_of_week |-> day_of_week]
        /\ selected' = SaleIds(ApplyFilters(SaleQuery(sales), dr, None))
        /\ response' \in GetHourlyPerformance(dr, None, day_of_week)
        /\ issued' = HourlyStatements
        /\ StoreAfter(HourlyStatements)
        /\ UNCHANGED <<now, is_connected>>

ApiTimeSeries ==
    /\ Idle
    /\ \E period \in {None, Some("daily"), Some("weekly"), Some("monthly"),
                       Some("yearly"), Some("")},
          store_ids \in {None, Some(<<"1">>)} :
        /\ request' = [op |-> "GET /analytics/timeseries",
                       start_date |-> None, end_date |-> None,
                       store_ids |-> store_ids, channel_ids |-> None,
                       period |-> period]
        /\ \E o \in ApiTimeSeriesOutcomes(None, None, period, store_ids, None) :
              Answer(o)

ApiHourlyPerformance ==
    /\ Idle
    /\ \E day_of_week \in {None, Some(0 - 1), Some(0), Some(4), Some(6),
                            Some(7)},
          store_ids \in {None, Some(<<"1">>)} :
        /\ request' = [op |-> "GET /analytics/hourly/performance",
                       start_date |-> None, end_date |-> None,
                       store_ids |-> store_ids, channel_ids |-> None,
                       day_of_week |-> day_of_week]
        /\ \E o \in ApiHourlyPerformanceOutcomes(None, None, day_of_week,
                                                 store_ids, None) : Answer(o)

NextHourly ==
    \/ CallTimeSeries
    \/ CallHourlyPerformance
    \/ ApiTimeSeries
    \/ ApiHourlyPerformance
    \/ Deliver

SpecHourly == InitHourly /\ [][NextHourly]_vars

----------------------------------------------------------------------------
(* SpecStatements: the statements the two query layers send for a time     *)
(* series, for the top products and for the ticket trend.  Here issued     *)
(* records each statement with its text and its bound values.              *)

MaxStatementSales == 1
MaxStatementLineItems == 1

StatementRows ==
    {[store_id |-> k.store_id, channel_id |-> k.channel_id,
      customer_id |-> Null, created_at |-> k.created_at,
      sale_status_desc |-> "COMPLETED", total_amount |-> 10,
      total_discount |-> Some(0), delivery_fee |-> Some(0),
      production_seconds |-> Null, delivery_seconds |-> Null] :
        k \in [created_at : {4 * 24 + 13, 5 * 24 + 20}, store_id : {1},
               channel_id : ChannelIds]}

StatementLineItems ==
    {l \in LineItems(1) : l.quantity = 1 /\ l.total_price = 10}

InitStatements ==
    /\ \E ts \in SortedSeqs(StatementRows,
                             [t \in StatementRows |-> HourlyRowKey(t)],
                             MaxStatementSales) :
          /\ sales = SalesTable(ts)
          /\ \E ls \in SortedSeqs(StatementLineItems,
                                   [l \in StatementLineItems |-> LineItemKey(l)],
                                   MaxStatementLineItems) :
                product_sales = IF ts = <<>> THEN {}
                                ELSE {MkProductSale(i, ls[i]) : i \in 1..Len(ls)}
    /\ products = AllProducts
    /\ categories = AllCategories
    /\ customers = {}
    /\ stores = AllStores
    /\ channels = AllChannels
    /\ delivery_addresses = {}
    /\ now = 40 * 24
    /\ InitIdle

StatementTimes == {None, Some(4 * 24 + 13), Some(5 * 24 + 20)}

(* The requests sent: every filter absent, empty, and present with         *)
(* different values, a quote among them.                                   *)
TimeSeriesRequests ==
    [op : {"get_time_series"},
     date_range : {None} \cup {Some(dr) : dr \in [start_date : StatementTimes,
                                                  end_date : StatementTimes]},
     filters : {None} \cup
               {Some([NoDimensions EXCEPT !.store_ids = ids]) :
                   ids \in {Some(<<>>), Some(<<1>>), Some(<<2>>), Some(<<1, 2>>)}},
     period : Periods]

TopProductsRequests ==
    [op : {"GET /analytics/top-products"},
     channel : {None, Some(""), Some("iFood"), Some("' OR '1'='1")},
     dow : {None, Some(4), Some(5)},
     hour_start : {None, Some(12)},
     hour_end : {None, Some(14), Some(23)},
     limit : {1, 10}]

TicketTrendRequests ==
    [op : {"GET /analytics/ticket-trend"},
     group_by : {None, Some("channel"), Some("store"),
                 Some("store_id; DROP TABLE sales")},
     start : StatementTimes,
     end : StatementTimes]

Statement(stmt) == [kind |-> "SELECT", text |-> stmt.text, params |-> stmt.params]

SendTimeSeries ==
    /\ Idle
    /\ \E r \in TimeSeriesRequests :
        /\ request' = r
        /\ selected' = SaleIds(ApplyFilters(SaleQuery(sales), r.date_range,
                                            r.filters))
        /\ response' \in GetTimeSeries(r.date_range, r.filters, r.period)
        /\ issued' = <<Statement(TimeSeriesStatement(r.date_range, r.filters,
                                                     r.period))>>
        /\ StoreAfter(TimeSeriesStatements)
        /\ UNCHANGED <<now, is_connected>>

SendTopProducts ==
    /\ Idle
    /\ \E r \in TopProductsRequests :
        /\ request' = r
        /\ \E o \in TopProductsOutcomes(r.channel, r.dow, r.hour_start,
                                        r.hour_end, r.limit) :
              /\ response' = o.response
              /\ issued' = IF o.issued = <<>> THEN <<>>
                            ELSE <<Statement(TopProductsStatement(
                                      r.channel, r.dow, r.hour_start,
                                      r.hour_end, r.limit))>>
              /\ StoreAfter(o.issued)
        /\ selected' = {}
        /\ UNCHANGED <<now, is_connected>>

SendTicketTrend ==
    /\ Idle
    /\ \E r \in TicketTrendRequests :
        /\ request' = r
        /\ \E o \in TicketTrendOutcomes(r.group_by, r.start, r.end) :
              /\ response' = o.response
              /\ issued' = IF o.issued = <<>> THEN <<>>
                            ELSE <<Statement(TicketTrendStatement(
                                      QueryDefault(r.group_by, "channel"),
                                      r.start, r.end))>>
              /\ StoreAfter(o.issued)
        /\ selected' = {}
        /\ UNCHANGED <<now, is_connected>>

NextStatements ==
    \/ SendTimeSeries
    \/ SendTopProducts
    \/ SendTicketTrend
    \/ Deliver

SpecStatements == InitStatements /\ [][NextStatements]_vars

----------------------------------------------------------------------------
(* SpecInverted: the grouped and ranking queries, asked for a date range   *)
(* that ends before it starts and, for comparison, for no date range.      *)

MaxInvertedSales == 2
MaxInvertedLineItems == 1

GroupedQueries ==
    {"get_product_ranking", "get_channel_performance", "get_store_performance",
     "get_time_series", "get_delivery_performance", "get_hourly_performance",
     "get_product_margin_analysis"}

(* Ranges whose start is later than their end: both ends among the sales,  *)
(* and the two ends an hour apart.                                         *)
InvertedDateRanges ==
    {InvertedDateRange,
     Some([start_date |-> Some(4 * 24 + 14), end_date |-> Some(4 * 24 + 13)])}

(* The responses the service method op may give.                           *)
GroupedResponses(op, date_range, filters, day_of_week) ==
    CASE op = "get_product_ranking" ->
            GetProductRanking(date_range, filters, 20)
      [] op = "get_channel_performance" ->
            GetChannelPerformance(date_range, filters)
      [] op = "get_store_performance" ->
            GetStorePerformance(date_range, filters)
      [] op = "get_time_series" ->
            GetTimeSeries(date_range, filters, "daily")
      [] op = "get_delivery_performance" ->
            GetDeliveryPerformance(date_range, filters)
      [] op = "get_hourly_performance" ->
            GetHourlyPerformance(date_range, filters, day_of_week)
      [] op = "get_product_margin_analysis" ->
            GetProductMarginAnalysis(date_range, filters, 50)

InitInverted ==
    /\ \E ts \in SortedSeqs(HourlyRows, [t \in HourlyRows |-> HourlyRowKey(t)],
                             MaxInvertedSales) :
          /\ sales = SalesTable(ts)
          /\ delivery_addresses =
                {MkDeliveryAddress(i, [place |-> "Centro"]) : i \in 1..Len(ts)}
          /\ \E ls \in SortedSeqs(LineItems(1),
                                   [l \in LineItems(1) |-> LineItemKey(l)],
                                   MaxInvertedLineItems) :
                product_sales = IF ts = <<>> THEN {}
                                ELSE {MkProductSale(i, ls[i]) : i \in 1..Len(ls)}
    /\ products = AllProducts
    /\ categories = AllCategories
    /\ customers = {}
    /\ stores = AllStores
    /\ channels = AllChannels
    /\ now = 40 * 24
    /\ InitIdle

CallGrouped ==
    /\ Idle
    /\ \E op \in GroupedQueries, dr \in InvertedDateRanges \cup {None},
          day_of_week \in {None, Some(4)} :
        /\ op # "get_hourly_performance" => day_of_week = None
        /\ request' = [op |-> op, date_range |-> dr, filters |-> None,
                       day_of_week |-> day_of_week]
        /\ selected' = SaleIds(ApplyFilters(SaleQuery(sales), dr, None))
        /\ response' \in GroupedResponses(op, dr, None, day_of_week)
        /\ issued' = <<"SELECT">>
        /\ StoreAfter(<<"SELECT">>)
        /\ UNCHANGED <<now, is_connected>>

NextInverted == CallGrouped \/ Deliver

SpecInverted == InitInverted /\ [][NextInverted]_vars

----------------------------------------------------------------------------
(* SpecOrder: the grouped queries over a store with two groups of sales.   *)
(* The sales of a group share store, channel, neighborhood, product, hour  *)
(* and amounts, so that every grouped query lists the two groups apart;    *)
(* a group is large enough for the delivery performance or a single sale.  *)

MaxGroupSales == 5

(* The sales of group g; group 1 is in Centro, group 2 has no              *)
(* neighborhood.                                                           *)
GroupRow(g, k) ==
    [store_id |-> g, channel_id |-> g, customer_id |-> Null,
     created_at |-> k.created_at, sale_status_desc |-> "COMPLETED",
     total_amount |-> k.amount, total_discount |-> Some(0),
     delivery_fee |-> Some(0), production_seconds |-> k.production_seconds,
     delivery_seconds |-> Some(k.delivery_seconds),
     place |-> IF g = 1 THEN "Centro" ELSE "unnamed",
     quantity |-> k.quantity]

GroupKinds(g) ==
    [created_at : IF g = 1 THEN {4 * 24 + 13, 5 * 24 + 13}
                  ELSE {4 * 24 + 13, 4 * 24 + 20, 5 * 24 + 13},
     amount : {10, 20},
     production_seconds : {Null, Some(300)},
     delivery_seconds : IF g = 1 THEN {600} ELSE {600, 1200},
     quantity : {1, 2}]

InitOrder ==
    /\ \E k1 \in GroupKinds(1), k2 \in GroupKinds(2),
          n1 \in {1, MaxGroupSales} :
          LET ts == [i \in 1..(n1 + MaxGroupSales) |->
                       IF i <= n1 THEN GroupRow(1, k1) ELSE GroupRow(2, k2)]
          IN /\ sales = SalesTable(ts)
             /\ delivery_addresses =
                   {MkDeliveryAddress(i, ts[i]) : i \in 1..Len(ts)}
             /\ product_sales =
                   {MkProductSale(i, [sale_id |-> i,
                                      product_id |-> ts[i].store_id,
                                      quantity |-> ts[i].quantity,
                                      base_price |-> 10,
                                      total_price |-> ts[i].total_amount]) :
                       i \in 1..Len(ts)}
    /\ products = AllProducts
    /\ categories = AllCategories
    /\ customers = {}
    /\ stores = AllStores
    /\ channels = AllChannels
    /\ now = 40 * 24
    /\ InitIdle

SpecOrder == InitOrder /\ [][NextInverted]_vars

----------------------------------------------------------------------------
(* SpecMargin: the product margin analysis of the service and the          *)
(* prototype's low-margin products, over a products table as models.py      *)
(* declares it and over one to which a cost column has been added.         *)

MaxMarginSales == 2
MaxMarginLineItems == 2

MarginRows ==
    {[store_id |-> k.store_id, channel_id |-> 1, customer_id |-> Null,
      created_at |-> 1, sale_status_desc |-> k.status, total_amount |-> 10,
      total_discount |-> Some(0), delivery_fee |-> Some(0),
      production_seconds |-> Null, delivery_seconds |-> Null] :
        k \in {[store_id |-> 1, status |-> "COMPLETED"],
               [store_id |-> 2, status |-> "COMPLETED"],
               [store_id |-> 1, status |-> "CANCELLED"]}}

(* Line items of the sales 1..n: one unit at its base price, cheap or      *)
(* dear, or two units with a customization.                                *)
MarginLineItems(n) ==
    {[sale_id |-> i, product_id |-> pid, quantity |-> k.quantity,
      base_price |-> k.base_price, total_price |-> k.total_price] :
        i \in 1..n, pid \in ProductIds,
        k \in {[quantity |-> 1, base_price |-> 10, total_price |-> 10],
               [quantity |-> 2, base_price |-> 10, total_price |-> 12],
               [quantity |-> 1, base_price |-> 20, total_price |-> 20]}}

ProductRowWithCost(i, cost) ==
    [id |-> i, name |-> ProductRow(i).name,
     category_id |-> ProductRow(i).category_id,
     deleted_at |-> ProductRow(i).deleted_at, cost |-> cost]

ProductTables ==
    {AllProducts,
     {ProductRowWithCost(1, Some(8)), ProductRowWithCost(2, Null)}}

InitMargin ==
    /\ \E ts \in SortedSeqs(MarginRows, [t \in MarginRows |-> RowKey(t)],
                             MaxMarginSales) :
          /\ sales = SalesTable(ts)
          /\ \E ls \in SortedSeqs(MarginLineItems(Len(ts)),
                                   [l \in MarginLineItems(Len(ts)) |->
                                       LineItemKey(l) * 2 + l.base_price \div 20],
                                   MaxMarginLineItems) :
                product_sales = {MkProductSale(i, ls[i]) : i \in 1..Len(ls)}
    /\ products \in ProductTables
    /\ categories = AllCategories
    /\ customers = {}
    /\ stores = AllStores
    /\ channels = AllChannels
    /\ delivery_addresses = {}
    /\ now = 3
    /\ InitIdle

CallProductMargin ==
    /\ Idle
    /\ \E f \in {None, Some([NoDimensions EXCEPT !.store_ids = Some(<<1>>)])},
          limit \in {1, 50} :
        /\ request' = [op |-> "get_product_margin_analysis",
                       date_range |-> None, filters |-> f, limit |-> limit]
        /\ selected' = SaleIds(ApplyFilters(LineItemJoin, None, f))
        /\ response' \in GetProductMarginAnalysis(None, f, limit)
        /\ issued' = MarginStatements
        /\ StoreAfter(MarginStatements)
        /\ UNCHANGED <<now, is_connected>>

LowMarginProducts ==
    /\ Idle
    /\ \E limit \in {1, 20} :
        /\ request' = [op |-> "GET /analytics/low-margin-products",
                       limit |-> limit]
        /\ \E o \in LowMarginOutcomes(limit) : Answer(o)

NextMargin == CallProductMargin \/ LowMarginProducts \/ Deliver

SpecMargin == InitMargin /\ [][NextMargin]_vars

----------------------------------------------------------------------------
(* SpecRepeat: a client sends the request it has just sent once more, the  *)
(* store unchanged, while the clock may pass midnight in between.          *)

MaxRepeatSales == 2
MaxRepeatLineItems == 2
MaxTicks == 1

RepeatRows ==
    [store_id : {1}, channel_id : {1},
     customer_id : {Some(c) : c \in CustomerIds},
     created_at : {Today - 31, Today - 30},
     sale_status_desc : {"COMPLETED"}, total_amount : {10},
     total_discount : {Some(0)}, delivery_fee : {Some(0)},
     production_seconds : {Null}, delivery_seconds : {Null}]

InitRepeat ==
    /\ \E ts \in SortedSeqs(RepeatRows, [t \in RepeatRows |-> RowKey(t)],
                             MaxRepeatSales) :
          /\ sales = SalesTable(ts)
          /\ \E ls \in SortedSeqs(LineItems(1),
                                   [l \in LineItems(1) |-> LineItemKey(l)],
                                   MaxRepeatLineItems) :
                product_sales = IF ts = <<>> THEN {}
                                ELSE {MkProductSale(i, ls[i]) : i \in 1..Len(ls)}
    /\ products = AllProducts
    /\ categories = AllCategories
    /\ customers = AllCustomers
    /\ stores = AllStores
    /\ channels = AllChannels
    /\ delivery_addresses = {}
    /\ now = Today
    /\ InitIdle

(* The request in flight is answered, not yet delivered.                   *)
Answered == request # NoRequest /\ response # NoResponse

(* get_customer_retention, the clock not moving during the call.           *)
CallCustomerRetentionAtOnce ==
    /\ Idle
    /\ \E min_orders \in {0, 3}, days_inactive \in {29, 30} :
        /\ request' = [op |-> "get_customer_retention",
                       min_orders |-> min_orders,
                       days_inactive |-> days_inactive]
        /\ selected' = {s.id : s \in {t \in sales :
                                        t.customer_id # Null /\ IsCompleted(t)}}
        /\ response' \in GetCustomerRetention(min_orders, days_inactive,
                                              now, now)
        /\ issued' = RetentionStatements
        /\ StoreAfter(RetentionStatements)
        /\ UNCHANGED <<now, is_connected>>

(* The same get_product_ranking call once more.                            *)
RepeatProductRanking ==
    /\ Answered
    /\ request.op = "get_product_ranking"
    /\ response' \in GetProductRanking(request.date_range, request.filters,
                                        request.limit)
    /\ issued' = RankingStatements
    /\ StoreAfter(RankingStatements)
    /\ UNCHANGED <<request, selected, now, is_connected>>

(* The same get_customer_retention call once more; it reads the clock      *)
(* again.                                                                  *)
RepeatCustomerRetention ==
    /\ Answered
    /\ request.op = "get_customer_retention"
    /\ response' \in GetCustomerRetention(request.min_orders,
                                           request.days_inactive, now, now)
    /\ issued' = RetentionStatements
    /\ StoreAfter(RetentionStatements)
    /\ UNCHANGED <<request, selected, now, is_connected>>

(* A day ends.                                                             *)
Tick ==
    /\ now < Today + MaxTicks
    /\ now' = now + 1
    /\ UNCHANGED <<tables, is_connected, request, response, issued, selected>>

NextRepeat ==
    \/ CallProductRanking
    \/ CallCustomerRetentionAtOnce
    \/ RepeatProductRanking
    \/ RepeatCustomerRetention
    \/ Tick
    \/ Deliver

SpecRepeat == InitRepeat /\ [][NextRepeat]_vars

----------------------------------------------------------------------------
(* SpecCasing: both query layers over sales whose status is written in     *)
(* upper, lower and mixed case.                                            *)

MaxCasingSales == 2
MaxCasingLineItems == 2

CasingRows ==
    [store_id : {1}, channel_id : {1}, customer_id : {Some(1)},
     created_at : {4 * 24 + 13},
     sale_status_desc : {"COMPLETED", "Completed", "completed", "CANCELLED"},
     total_amount : {10}, total_discount : {Some(0)}, delivery_fee : {Some(0)},
     production_seconds : {Null}, delivery_seconds : {Null}]

CasingLineItems(n) == {l \in LineItems(n) : l.product_id = 1 /\ l.total_price = 10}

InitCasing ==
    /\ \E ts \in SortedSeqs(CasingRows, [t \in CasingRows |-> RowKey(t)],
                             MaxCasingSales) :
          /\ sales = SalesTable(ts)
          /\ \E ls \in SortedSeqs(CasingLineItems(Len(ts)),
                                   [l \in CasingLineItems(Len(ts)) |->
                                       LineItemKey(l)],
                                   MaxCasingLineItems) :
                product_sales = {MkProductSale(i, ls[i]) : i \in 1..Len(ls)}
    /\ products = AllProducts
    /\ categories = AllCategories
    /\ customers = AllCustomers
    /\ stores = AllStores
    /\ channels = AllChannels
    /\ delivery_addresses = {}
    /\ now = 40 * 24
    /\ InitIdle

TicketTrend ==
    /\ Idle
    /\ \E group_by \in {None, Some("store")},
          end \in {None, Some(4 * 24 + 13)} :
        /\ request' = [op |-> "GET /analytics/ticket-trend",
                       group_by |-> group_by, start |-> None, end |-> end]
        /\ \E o \in TicketTrendOutcomes(group_by, None, end) : Answer(o)

NextCasing ==
    \/ CallGrouped
    \/ CallCustomerRetentionAtOnce
    \/ TopProducts
    \/ TicketTrend
    \/ Deliver

SpecCasing == InitCasing /\ [][NextCasing]_vars

----------------------------------------------------------------------------
(* SpecMetadata: the listings of api/v1/metadata.py over stores that are   *)
(* active or not and categories and products that are deleted or not.      *)

MaxMetadataProducts == 2

(* A product of a category or of none, deleted or not.                     *)
MetadataProductKinds ==
    [category_id : {Null, Some(1), Some(2)}, deleted_at : {Null, Some(1)}]

MetadataProductKey(k) ==
    (IF k.category_id = Null THEN 0 ELSE Val(k.category_id)) * 2
        + (IF k.deleted_at = Null THEN 0 ELSE 1)

MkProduct(id, k) ==
    [id |-> id, name |-> IF id = 1 THEN "X-Burger" ELSE "Refrigerante",
     category_id |-> k.category_id, deleted_at |-> k.deleted_at]

InitMetadata ==
    /\ \E ps \in SortedSeqs(MetadataProductKinds,
                             [k \in MetadataProductKinds |->
                                 MetadataProductKey(k)],
                             MaxMetadataProducts) :
          products = {MkProduct(i, ps[i]) : i \in 1..Len(ps)}
    /\ \E all_active \in BOOLEAN :
          stores = {[StoreRow(i) EXCEPT !.is_active = @ \/ all_active] :
                      i \in StoreIds}
    /\ \E deleted \in BOOLEAN :
          categories =
              {[CategoryRow(i) EXCEPT
                  !.deleted_at = IF deleted /\ i = 2 THEN Some(1) ELSE Null] :
                 i \in ProductIds}
    /\ channels = AllChannels
    /\ sales = {}
    /\ product_sales = {}
    /\ customers = {}
    /\ delivery_addresses = {}
    /\ now = Today
    /\ InitIdle

ApiStores ==
    /\ Idle
    /\ \E active_only \in {None, Some(TRUE), Some(FALSE)} :
        /\ request' = [op |-> "GET /stores", active_only |-> active_only]
        /\ \E r \in GetStores(QueryDefault(active_only, TRUE)) :
              Answer([response |-> r, issued |-> <<"SELECT">>])

ApiChannels ==
    /\ Idle
    /\ request' = [op |-> "GET /channels"]
    /\ \E r \in GetChannels : Answer([response |-> r, issued |-> <<"SELECT">>])

ApiCategories ==
    /\ Idle
    /\ request' = [op |-> "GET /categories"]
    /\ \E r \in GetCategories :
          Answer([response |-> r, issued |-> <<"SELECT">>])

ApiProducts ==
    /\ Idle
    /\ \E category_id \in {None, Some(0), Some(1), Some(2)},
          limit \in {None, Some(0 - 1), Some(0), Some(1), Some(2)} :
        /\ request' = [op |-> "GET /products", category_id |-> category_id,
                       limit |-> limit]
        /\ \E r \in GetProducts(category_id, QueryDefault(limit, 100)) :
              Answer([response |-> r, issued |-> <<"SELECT">>])

NextMetadata ==
    \/ ApiMetadata
    \/ ApiStores
    \/ ApiChannels
    \/ ApiCategories
    \/ ApiProducts
    \/ Deliver

SpecMetadata == InitMetadata /\ [][NextMetadata]_vars

----------------------------------------------------------------------------
(* SpecIngest: channel and store performance as the two queries they are,  *)
(* while the ingestion pipeline, which is outside this system, writes to   *)
(* the sales table.  Each statement reads the rows committed when it       *)
(* starts.  Here issued holds each statement sent with what it returned.   *)

MaxIngestSales == 2

IngestRows ==
    {[store_id |-> k.store_id, channel_id |-> k.channel_id,
      customer_id |-> Null, created_at |-> 1,
      sale_status_desc |-> k.sale_status_desc, total_amount |-> 10,
      total_discount |-> Some(0), delivery_fee |-> Some(0),
      production_seconds |-> Null, delivery_seconds |-> Null] :
        k \in [store_id : StoreIds, channel_id : ChannelIds,
               sale_status_desc : {"COMPLETED", "CANCELLED"}]}

InitIngest ==
    /\ sales \in {{}} \cup {{MkSale(1, t)} : t \in IngestRows}
    /\ channels = AllChannels
    /\ stores = AllStores
    /\ product_sales = {}
    /\ products = {}
    /\ categories = {}
    /\ customers = {}
    /\ delivery_addresses = {}
    /\ now = 3
    /\ InitIdle

IngestFilters == {None, Some([NoDimensions EXCEPT !.store_ids = Some(<<1>>)])}

(* The pipeline inserts a sale under the next id, or marks a sale          *)
(* completed or cancelled.                                                 *)
Ingest ==
    /\ \/ /\ Cardinality(sales) < MaxIngestSales
          /\ \E t \in IngestRows :
                sales' = sales \cup {MkSale(Cardinality(sales) + 1, t)}
       \/ \E s \in sales, status \in {"COMPLETED", "CANCELLED"} :
             /\ status # s.sale_status_desc
             /\ sales' = (sales \ {s})
                           \cup {[s EXCEPT !.sale_status_desc = status]}
    /\ UNCHANGED <<product_sales, products, categories, customers, stores,
                   channels, delivery_addresses, now, is_connected, request,
                   response, issued, selected>>

Returned(result) == [kind |-> "SELECT", result |-> result]

(* total_revenue = total_revenue_query.scalar() or 0                       *)
QueryTotalRevenue ==
    /\ Idle
    /\ \E op \in {"get_channel_performance", "get_store_performance"},
          f \in IngestFilters :
        /\ request' = [op |-> op, date_range |-> None, filters |-> f]
        /\ issued' = <<Returned(TotalRevenue(None, f))>>
    /\ response' = NoResponse
    /\ selected' = {}
    /\ UNCHANGED <<tables, now, is_connected>>

(* results = query.all() and the list built from it with the total read    *)
(* before.                                                                 *)
QueryGrouped ==
    /\ ~Idle
    /\ response = NoResponse
    /\ response' \in
          IF request.op = "get_channel_performance"
          THEN ChannelPerformanceGiven(request.date_range, request.filters,
                                       issued[1].result)
          ELSE StorePerformanceGiven(request.date_range, request.filters,
                                     issued[1].result)
    /\ issued' = Append(issued, Returned(response'))
    /\ selected' = {}
    /\ UNCHANGED <<tables, now, is_connected, request>>

DeliverAnswered == response # NoResponse /\ Deliver

NextIngest ==
    \/ QueryTotalRevenue
    \/ Ingest
    \/ QueryGrouped
    \/ DeliverAnswered

SpecIngest == InitIngest /\ [][NextIngest]_vars

----------------------------------------------------------------------------
(* SpecChurn: the retention list of the service and the churned customers  *)
(* of the prototype over the same customers and sales.                     *)

MaxChurnSales == 3

ChurnRows ==
    [store_id : {1}, channel_id : {1},
     customer_id : {Some(c) : c \in CustomerIds},
     created_at : {Today - 31, Today - 30},
     sale_status_desc : {"COMPLETED", "CANCELLED", "completed"},
     total_amount : {10},
     total_discount : {Some(0)}, delivery_fee : {Some(0)},
     production_seconds : {Null}, delivery_seconds : {Null}]

InitChurn ==
    /\ \E ts \in SortedSeqs(ChurnRows, [t \in ChurnRows |-> RowKey(t)],
                             MaxChurnSales) :
          sales = SalesTable(ts)
    /\ product_sales = {}
    /\ products = {}
    /\ categories = {}
    /\ customers = AllCustomers
    /\ stores = AllStores
    /\ channels = AllChannels
    /\ delivery_addresses = {}
    /\ now = Today
    /\ InitIdle

ChurnedCustomers ==
    /\ Idle
    /\ \E min_orders \in {None, Some(0), Some(1)}, days \in {None, Some(29)} :
        /\ request' = [op |-> "GET /analytics/churned-customers",
                       min_orders |-> QueryDefault(min_orders, 3),
                       days |-> QueryDefault(days, 30)]
        /\ \E o \in ChurnedCustomersOutcomes(QueryDefault(min_orders, 3),
                                             QueryDefault(days, 30)) :
              Answer(o)

NextChurn ==
    \/ CallCustomerRetentionAtOnce
    \/ ChurnedCustomers
    \/ Deliver

SpecChurn == InitChurn /\ [][NextChurn]_vars

----------------------------------------------------------------------------
(* Claims about _apply_filters (SpecFilter).                               *)

(* The six criteria of a (date_range, filters) pair, None containers read  *)
(* as containers of None.                                                  *)
DateRangeOf(dr) == IF IsSet(dr) THEN Val(dr) ELSE NoDateRange
DimensionsOf(f) == IF IsSet(f) THEN Val(f) ELSE NoDimensions

(* A list criterion is set when it is a list with an element.             *)
HasCriterion(o) == o # None /\ o # Some(<<>>)

ListDimensions == {"store_ids", "channel_ids", "customer_ids", "sale_status"}
DateBounds == {"start_date", "end_date"}

(* The filters F' that equal (dr, f) plus one criterion that (dr, f) does  *)
(* not have: a date bound that is None, an id list that is None or empty.  *)
Extensions(dr, f) ==
    {[date_range |-> Some([DateRangeOf(dr) EXCEPT ![b] = Some(t)]),
      filters |-> f] :
        b \in {x \in DateBounds : DateRangeOf(dr)[x] = None}, t \in Times}
    \cup
    UNION {
      {[date_range |-> dr,
        filters |-> Some([DimensionsOf(f) EXCEPT ![d] = l])] :
          l \in IF d = "sale_status"
                 THEN {Some(<<"COMPLETED">>), Some(<<"CANCELLED">>)}
                 ELSE {Some(<<1>>), Some(<<2>>), Some(<<1, 2>>)}} :
      d \in {x \in ListDimensions : ~HasCriterion(DimensionsOf(f)[x])}}

SelectedUnder(x) ==
    SaleIds(ApplyFilters(SaleQuery(sales), x.date_range, x.filters))

(* C1: adding one criterion to a filter never adds a sale to the selection: *)
(* for every filter F handled and every F' = F plus one criterion, the     *)
(* sales selected under F' are among those selected under F.               *)
C1_FilterMonotonic ==
    request.op = "_apply_filters" =>
        \A x \in Extensions(request.date_range, request.filters) :
            SelectedUnder(x) \subseteq selected

(* A filter that selects a sale which one more criterion removes.          *)
C1_Witness ==
    /\ request.op = "_apply_filters"
    /\ \E x \in Extensions(request.date_range, request.filters) :
          SelectedUnder(x) # selected
    /\ IsSet(request.filters) /\ HasCriterion(Val(request.filters).store_ids)

(* The declarative reading of a filter: every criterion that is set holds. *)
Passes(s, dr, f) ==
    /\ IsSet(DateRangeOf(dr).start_date) =>
          s.created_at >= Val(DateRangeOf(dr).start_date)
    /\ IsSet(DateRangeOf(dr).end_date) =>
          s.created_at <= Val(DateRangeOf(dr).end_date)
    /\ HasCriterion(DimensionsOf(f).store_ids) =>
          \E i \in DOMAIN Val(DimensionsOf(f).store_ids) :
              Val(DimensionsOf(f).store_ids)[i] = s.store_id
    /\ HasCriterion(DimensionsOf(f).channel_ids) =>
          \E i \in DOMAIN Val(DimensionsOf(f).channel_ids) :
              Val(DimensionsOf(f).channel_ids)[i] = s.channel_id
    /\ HasCriterion(DimensionsOf(f).customer_ids) =>
          \E i \in DOMAIN Val(DimensionsOf(f).customer_ids) :
              s.customer_id = Some(Val(DimensionsOf(f).customer_ids)[i])
    /\ HasCriterion(DimensionsOf(f).sale_status) =>
          \E i \in DOMAIN Val(DimensionsOf(f).sale_status) :
              Val(DimensionsOf(f).sale_status)[i] = s.sale_status_desc

(* C2: a sale is selected exactly when all criteria that are set hold at   *)
(* once: inclusive date bounds, and membership in every non-empty list.    *)
C2_FilterIsConjunction ==
    request.op = "_apply_filters" =>
        selected =
            {s.id : s \in {t \in sales :
                              Passes(t, request.date_range, request.filters)}}

(* A sale on the end date itself is selected while a criterion of another  *)
(* dimension holds too.                                                    *)
C2_Witness ==
    /\ request.op = "_apply_filters"
    /\ IsSet(request.date_range) /\ IsSet(request.filters)
    /\ HasCriterion(Val(request.filters).channel_ids)
    /\ \E s \in sales :
          /\ s.id \in selected
          /\ Val(request.date_range).end_date = Some(s.created_at)
          /\ Val(request.date_range).start_date = Some(s.created_at)

(* C3: None and the empty list restrict nothing: a filter all of whose     *)
(* criteria are None or empty selects every sale, and replacing an empty   *)
(* list by None leaves the selection as it is.                             *)
C3_AbsentOrEmptyUnrestricted ==
    request.op = "_apply_filters" =>
        /\ ( /\ \A b \in DateBounds :
                    DateRangeOf(request.date_range)[b] = None
             /\ \A d \in ListDimensions :
                    DimensionsOf(request.filters)[d] \in {None, Some(<<>>)} )
           => selected = {s.id : s \in sales}
        /\ \A d \in ListDimensions :
              DimensionsOf(request.filters)[d] = Some(<<>>) =>
                  selected =
                      SelectedUnder(
                          [date_range |-> request.date_range,
                           filters |->
                               Some([DimensionsOf(request.filters)
                                         EXCEPT ![d] = None])])

(* A filter of empty lists only, applied to a table that has a sale.       *)
C3_Witness ==
    /\ request.op = "_apply_filters"
    /\ sales # {}
    /\ \A d \in ListDimensions :
          DimensionsOf(request.filters)[d] = Some(<<>>)
    /\ selected = {s.id : s \in sales}

----------------------------------------------------------------------------
(* Claims about channel and store performance (SpecPerformance).           *)

IsPerformance ==
    request.op \in {"get_channel_performance", "get_store_performance"}

(* The completed sales the request's filter selects, read off the filter.  *)
CompletedSelected ==
    {s \in sales : /\ s.sale_status_desc = "COMPLETED"
                   /\ Passes(s, request.date_range, request.filters)}

(* The group a sale belongs to, and the group a response row stands for.   *)
GroupOfSale(s) ==
    IF request.op = "get_channel_performance" THEN s.channel_id ELSE s.store_id
GroupOfRow(row) ==
    IF request.op = "get_channel_performance" THEN row.channel_id ELSE row.store_id
ListedGroups ==
    IF request.op = "get_channel_performance"
    THEN {c.id : c \in channels} ELSE {st.id : st \in stores}

AmountOf(S) == SumFn([s \in S |-> s.total_amount], S)

(* C5: each row's revenue_percentage is group revenue / total revenue * 100 *)
(* with the total taken over the completed sales the same filter selects,  *)
(* and is 0 when that total is 0; the request never fails on a division.   *)
C5_RevenuePercentage ==
    IsPerformance =>
        /\ response.status = 200
        /\ \A i \in DOMAIN response.body :
              LET group == {s \in CompletedSelected :
                              GroupOfSale(s) = GroupOfRow(response.body[i])}
              IN response.body[i].revenue_percentage =
                   IF AmountOf(CompletedSelected) = 0
                   THEN [num |-> 0, den |-> 1]
                   ELSE Rat(AmountOf(group) * 100, AmountOf(CompletedSelected))

(* Rows are returned although the total revenue is 0.                      *)
C5_Witness ==
    /\ IsPerformance
    /\ response.status = 200
    /\ Len(response.body) = 2
    /\ AmountOf(CompletedSelected) = 0

RECURSIVE PercentageSum(_)
PercentageSum(rows) ==
    IF rows = <<>> THEN [num |-> 0, den |-> 1]
    ELSE RatAdd(Head(rows).revenue_percentage, PercentageSum(Tail(rows)))

(* C6: the revenue_percentage values of one result sum to at most 100, and *)
(* to exactly 100 when the total is positive and every completed selected  *)
(* sale has its channel (store) row.                                       *)
C6_PercentagesSumTo100 ==
    (IsPerformance /\ response.status = 200) =>
        LET total == PercentageSum(response.body)
        IN /\ total.num <= 100 * total.den
           /\ ( /\ AmountOf(CompletedSelected) > 0
                /\ \A s \in CompletedSelected : GroupOfSale(s) \in ListedGroups )
              => total = [num |-> 100, den |-> 1]

(* Two groups share a positive total; and a case where a sale's group row  *)
(* is missing is covered by the states with one channel and one store.     *)
C6_Witness ==
    /\ IsPerformance
    /\ response.status = 200
    /\ Len(response.body) = 2
    /\ \A i \in 1..2 : response.body[i].revenue_percentage.num > 0
    /\ PercentageSum(response.body) = [num |-> 100, den |-> 1]

----------------------------------------------------------------------------
(* Claims about the sales overview (SpecOverview).                         *)

ZeroFloat == [num |-> 0, den |-> 1]

----------------------------------------------------------------------------
(* Claims about the product ranking (SpecRanking).                         *)

(* C4: a non-empty product_ids (category_ids) restricts the ranking to the *)
(* products (the categories' products) in the list.                        *)
C4_ProductAndCategoryRestrict ==
    (request.op = "get_product_ranking" /\ response.status = 200) =>
        \A i \in DOMAIN response.body :
            /\ HasCriterion(DimensionsOf(request.filters).product_ids) =>
                  InList(response.body[i].product_id,
                         Val(DimensionsOf(request.filters).product_ids))
            /\ HasCriterion(DimensionsOf(request.filters).category_ids) =>
                  \E p \in products :
                      /\ p.id = response.body[i].product_id
                      /\ p.category_id # Null
                      /\ InList(Val(p.category_id),
                                Val(DimensionsOf(request.filters).category_ids))

----------------------------------------------------------------------------
(* Claims about customer retention (SpecRetention).                        *)

CompletedSalesOf(cid) ==
    {s \in sales : s.customer_id = Some(cid) /\ s.sale_status_desc = "COMPLETED"}

AtRisk(cid) ==
    /\ CompletedSalesOf(cid) # {}
    /\ Cardinality(CompletedSalesOf(cid)) >= request.min_orders
    /\ \A s \in CompletedSalesOf(cid) :
          s.created_at < now - request.days_inactive

(* C8: customer retention returns, once each, exactly the customers with   *)
(* at least one completed sale, at least min_orders completed sales and    *)
(* the latest of them strictly earlier than now - days_inactive.           *)
C8_RetentionExactlyAtRisk ==
    request.op = "get_customer_retention" =>
        /\ response.status = 200
        /\ {response.body[i].customer_id : i \in DOMAIN response.body}
             = {c.id : c \in {k \in customers : AtRisk(k.id)}}
        /\ \A i, j \in DOMAIN response.body :
              response.body[i].customer_id = response.body[j].customer_id
                  => i = j

(* Three completed sales, the latest 31 days old: listed; another customer *)
(* whose latest order is 30 or 29 days old is not.                         *)
C8_Witness ==
    /\ request.op = "get_customer_retention"
    /\ request.min_orders = 3
    /\ request.days_inactive = 30
    /\ Cardinality(CompletedSalesOf(1)) = 3
    /\ \A s \in CompletedSalesOf(1) : s.created_at = Today - 31
    /\ Len(response.body) = 1
    /\ response.body[1].customer_id = 1
    /\ response.body[1].total_orders = 3

----------------------------------------------------------------------------
(* Claims about the endpoints (Spec).                                      *)

AnalyticsEndpoints ==
    {"GET /analytics/overview", "GET /analytics/products/ranking",
     "GET /analytics/channels/performance", "GET /analytics/stores/performance"}

(* The list has an element that is not a number.                           *)
HasNonNumericElement(raw) ==
    raw # None /\ \E i \in 1..Len(Val(raw)) :
        Val(raw)[i] \notin {"0", "1", "2", "3", "4", "5", "6", "7", "8", "9", ","}

(* C10: a non-numeric element in store_ids or channel_ids is answered with *)
(* a client error (4xx), and no statement is sent to the store.            *)
C10_NonNumericIdIsClientError ==
    (/\ request.op \in AnalyticsEndpoints
     /\ \/ HasNonNumericElement(request.store_ids)
        \/ HasNonNumericElement(request.channel_ids)) =>
        /\ response.status \in 400..499
        /\ issued = <<>>

----------------------------------------------------------------------------
(* Claims about the limit parameter (SpecLimit).                           *)

LimitEndpoints ==
    {"GET /analytics/products/ranking", "GET /analytics/products/margin"}

MaxLimitOf(op) == IF op = "GET /analytics/products/ranking" THEN 100 ELSE 200

DefaultLimitOf(op) == IF op = "GET /analytics/products/ranking" THEN 20 ELSE 50

(* The id list is absent, empty, or numbers separated by single commas.    *)
WellFormedIds(raw) ==
    raw = None \/ Val(raw) = <<>> \/
    LET str == Val(raw)
    IN /\ \A i \in 1..Len(str) :
             str[i] \in {"0", "1", "2", "3", "4", "5", "6", "7", "8", "9", ","}
       /\ str[1] # "," /\ str[Len(str)] # ","
       /\ \A i \in 1..(Len(str) - 1) : ~(str[i] = "," /\ str[i + 1] = ",")

RequestedLimit ==
    IF request.limit = None THEN DefaultLimitOf(request.op)
    ELSE Val(request.limit)

(* C11: a limit below 1 or above the maximum (100 for the ranking, 200 for *)
(* the margin analysis) is rejected with a client error and no statement;  *)
(* an accepted limit L, the default included, answers at most L rows, and  *)
(* without filters exactly the lesser of L and the number of products sold *)
(* in the completed sale.                                                  *)
C11_LimitValidatedNotClamped ==
    (/\ request.op \in LimitEndpoints
     /\ WellFormedIds(request.store_ids)
     /\ WellFormedIds(request.channel_ids)) =>
        IF RequestedLimit < 1 \/ RequestedLimit > MaxLimitOf(request.op)
        THEN response.status \in 400..499 /\ issued = <<>>
        ELSE /\ response.status = 200
             /\ issued # <<>>
             /\ Len(response.body.products) <= RequestedLimit
             /\ (request.store_ids = None /\ request.channel_ids = None) =>
                   Len(response.body.products) =
                      IF Cardinality({l.product_id : l \in product_sales})
                             < RequestedLimit
                      THEN Cardinality({l.product_id : l \in product_sales})
                      ELSE RequestedLimit

(* Two products were sold and limit=1 answers one row.                     *)
C11_Witness ==
    /\ request.op \in LimitEndpoints
    /\ request.limit = Some(1)
    /\ Cardinality({l.product_id : l \in product_sales}) = 2
    /\ response.status = 200
    /\ Len(response.body.products) = 1

----------------------------------------------------------------------------
(* Claims about delivery performance (SpecDelivery).                       *)

(* The completed sales with a delivery time that pass the filters and have *)
(* a delivery address in the group g.                                      *)
QualifyingDeliveries(g) ==
    {s \in sales :
        /\ s.sale_status_desc = "COMPLETED"
        /\ s.delivery_seconds # Null
        /\ Passes(s, request.date_range, request.filters)
        /\ \E a \in delivery_addresses :
              /\ a.sale_id = s.id
              /\ a.neighborhood = g.neighborhood
              /\ a.city = g.city}

AddressGroups ==
    {[neighborhood |-> a.neighborhood, city |-> a.city] : a \in delivery_addresses}

ListedPlaces ==
    {[neighborhood |-> response.body[i].neighborhood,
      city |-> response.body[i].city] : i \in DOMAIN response.body}

(* C12: delivery performance lists a (neighborhood, city) group exactly    *)
(* when it has at least 5 qualifying deliveries, and lists it once with    *)
(* their number.                                                           *)
C12_DeliveryGroupsOfFive ==
    request.op = "get_delivery_performance" =>
        /\ response.status = 200
        /\ ListedPlaces =
              {g \in AddressGroups : Cardinality(QualifyingDeliveries(g)) >= 5}
        /\ \A i \in DOMAIN response.body :
              /\ response.body[i].total_deliveries >= 5
              /\ \A j \in DOMAIN response.body :
                    (/\ response.body[i].neighborhood = response.body[j].neighborhood
                     /\ response.body[i].city = response.body[j].city) => i = j

(* A group with exactly 5 qualifying deliveries is listed.                 *)
C12_Witness ==
    /\ request.op = "get_delivery_performance"
    /\ \E g \in AddressGroups : Cardinality(QualifyingDeliveries(g)) = 5
    /\ Len(response.body) = 1
    /\ response.body[1].total_deliveries = 5

(* A group with exactly 4 qualifying deliveries, and a fifth sale of the   *)
(* same place that does not qualify, is not listed.                        *)
C12_WitnessFour ==
    /\ request.op = "get_delivery_performance"
    /\ \E g \in AddressGroups : Cardinality(QualifyingDeliveries(g)) = 4
    /\ Cardinality(sales) = 5
    /\ Cardinality(AddressGroups) = 1
    /\ response.body = <<>>

----------------------------------------------------------------------------
(* Claims about the hourly performance and the time series (SpecHourly).   *)

HourlyByWeekday ==
    /\ request.op = "GET /analytics/hourly/performance"
    /\ request.day_of_week # None
    /\ Val(request.day_of_week) \in 0..6

(* C13: hourly performance requested with a day_of_week in 0..6 succeeds   *)
(* and returns at most 24 rows, one per distinct hour, all of them with    *)
(* day_of_week populated or all of them without.  The code does not: the   *)
(* statement selects the day of week and groups by the hour alone, which   *)
(* the store refuses, so the request fails.                                *)
C13_HourlyByWeekdaySucceeds ==
    HourlyByWeekday =>
        /\ response.status = 200
        /\ Len(response.body.performance) <= 24
        /\ \A i, j \in DOMAIN response.body.performance :
              /\ response.body.performance[i].hour
                    = response.body.performance[j].hour => i = j
              /\ (response.body.performance[i].day_of_week = None)
                    <=> (response.body.performance[j].day_of_week = None)

----------------------------------------------------------------------------
(* Claims about repeated requests (SpecRepeat).                            *)

(* C14: the same request issued twice against an unchanged store gets      *)
(* identical responses, row order included and, for customer retention,    *)
(* the customers and their days_since_last_order.  The code does not       *)
(* ensure it: get_customer_retention measures from datetime.now(), and     *)
(* rows with equal ORDER BY keys come in an order the statement leaves     *)
(* open.                                                                   *)
C14_RepeatedRequestSameResponse ==
    [][(Answered /\ request' = request /\ response' # NoResponse
            /\ tables' = tables)
        => response' = response]_vars

----------------------------------------------------------------------------
(* Claims about inverted date ranges (SpecInverted).                       *)

IsInverted(dr) ==
    /\ dr # None
    /\ Val(dr).start_date # None
    /\ Val(dr).end_date # None
    /\ Val(Val(dr).start_date) > Val(Val(dr).end_date)

GroupedWithInvertedRange ==
    request.op \in GroupedQueries /\ IsInverted(request.date_range)

EmptyList == response.status = 200 /\ response.body = <<>>

(* C15: for every date range with start_date later than end_date the       *)
(* grouped and ranking queries return an empty list and not an error.  The *)
(* code does not for the hourly performance with a day_of_week: its        *)
(* statement is refused whatever the range.                                *)
C15_InvertedRangeGivesEmptyList == GroupedWithInvertedRange => EmptyList

(* What the code does ensure of C15: an empty list from every grouped      *)
(* query but the hourly performance asked for one day of the week.         *)
InvertedRangeEmptyWithoutWeekday ==
    (GroupedWithInvertedRange /\ request.day_of_week = None) => EmptyList

(* Sales on both ends of the inverted range, listed without a range.       *)
InvertedRangeWitness ==
    /\ GroupedWithInvertedRange
    /\ request.op = "get_time_series"
    /\ Cardinality(sales) = 2
    /\ \A x \in sales : IsCompleted(x)
    /\ EmptyList

----------------------------------------------------------------------------
(* Claims about the validated parameters of the time series and of the     *)
(* hourly performance (SpecHourly).                                        *)

InvalidPeriod ==
    /\ request.op = "GET /analytics/timeseries"
    /\ request.period # None
    /\ Val(request.period) \notin {"daily", "weekly", "monthly"}

InvalidDayOfWeek ==
    /\ request.op = "GET /analytics/hourly/performance"
    /\ request.day_of_week # None
    /\ Val(request.day_of_week) \notin 0..6

(* C16: a time series period other than daily, weekly and monthly, and an  *)
(* hourly-performance day_of_week outside 0..6, fail the request with a    *)
(* validation error, and the store receives no statement.                  *)
C16_InvalidEnumRejectedBeforeQuery ==
    (InvalidPeriod \/ InvalidDayOfWeek) =>
        /\ response.status = 422
        /\ issued = <<>>

(* period=yearly refused over a store that holds a completed sale, which   *)
(* period=daily would have listed.                                         *)
C16_Witness ==
    /\ InvalidPeriod
    /\ Val(request.period) = "yearly"
    /\ \E x \in sales : IsCompleted(x)
    /\ response.status = 422
    /\ issued = <<>>

----------------------------------------------------------------------------
(* Claims about the statements sent (SpecStatements).                      *)

(* Which filter parameters a request gives, and its enum choices; an empty *)
(* list and an empty text count as not given, as the code tests them.      *)
Shape(r) ==
    CASE r.op = "get_time_series" ->
            <<IsSet(r.date_range) /\ Val(r.date_range).start_date # None,
              IsSet(r.date_range) /\ Val(r.date_range).end_date # None,
              IsSet(r.filters) /\ HasCriterion(Val(r.filters).store_ids),
              r.period>>
      [] r.op = "GET /analytics/top-products" ->
            <<r.channel # None /\ r.channel # Some(""), r.dow # None,
              r.hour_start # None /\ r.hour_end # None>>
      [] r.op = "GET /analytics/ticket-trend" ->
            <<r.start # None, r.end # None, QueryDefault(r.group_by, "channel")>>

StatementOf(r) ==
    CASE r.op = "get_time_series" ->
            TimeSeriesStatement(r.date_range, r.filters, r.period)
      [] r.op = "GET /analytics/top-products" ->
            TopProductsStatement(r.channel, r.dow, r.hour_start, r.hour_end,
                                 r.limit)
      [] r.op = "GET /analytics/ticket-trend" ->
            TicketTrendStatement(QueryDefault(r.group_by, "channel"), r.start,
                                 r.end)

StatementRequests ==
    TimeSeriesRequests \cup TopProductsRequests
        \cup {r \in TicketTrendRequests : GroupByOk(r.group_by)}

(* C17: the text of the statement sent for a request is the text sent for  *)
(* every request of the same endpoint that gives the same parameters and   *)
(* enum choices with other values, and the two statements bind as many     *)
(* values: a filter value is bound, never written into the text.           *)
C17_StatementTextIgnoresValues ==
    \A k \in DOMAIN issued :
        \A r \in StatementRequests :
            (r.op = request.op /\ Shape(r) = Shape(request)) =>
                /\ StatementOf(r).text = issued[k].text
                /\ Len(StatementOf(r).params) = Len(issued[k].params)

(* A channel text with a quote in it was sent: it is among the bound       *)
(* values, between the two % signs, and the text is the one sent for       *)
(* iFood.                                                                  *)
C17_Witness ==
    /\ request.op = "GET /analytics/top-products"
    /\ request.channel = Some("' OR '1'='1")
    /\ Len(issued) = 1
    /\ issued[1].params[1] = <<"%", "' OR '1'='1", "%">>
    /\ issued[1].text =
          TopProductsStatement(Some("iFood"), request.dow, request.hour_start,
                               request.hour_end, 1).text

----------------------------------------------------------------------------
(* Claims about the order of the result lists (SpecOrder).                 *)

RatGeq(a, b) == a.num * b.den >= b.num * a.den

(* The list in the response is in descending order of the field.           *)
DescendingBy(field) ==
    \A i \in 1..(Len(response.body) - 1) :
        RatGeq(response.body[i][field], response.body[i + 1][field])

DateKey(date) == (date.year * 16 + date.month) * 32 + date.day

AscendingByDate ==
    \A i \in 1..(Len(response.body) - 1) :
        DateKey(response.body[i].date) < DateKey(response.body[i + 1].date)

AscendingByHour ==
    \A i \in 1..(Len(response.body) - 1) :
        response.body[i].hour <= response.body[i + 1].hour

(* The deliveries of the listed group i have no production time at all:    *)
(* the sum of its two averages is NULL, and shown as 0.                    *)
NoProductionTime(i) ==
    \A x \in QualifyingDeliveries([neighborhood |-> response.body[i].neighborhood,
                                    city |-> response.body[i].city]) :
        x.production_seconds = Null

(* Descending by the sum of the two averages, NULL sums first.             *)
DeliveryDescendingNullsFirst ==
    \A i \in 1..(Len(response.body) - 1) :
        \/ NoProductionTime(i)
        \/ /\ ~NoProductionTime(i + 1)
           /\ RatGeq(response.body[i].total_delivery_time_minutes,
                     response.body[i + 1].total_delivery_time_minutes)

ListAnswered(op) == request.op = op /\ response.status = 200

(* C18 as stated: every grouped result list is in descending order of its  *)
(* primary computed metric (quantity sold, revenue, total delivery time).  *)
(* The code orders the time series by date and the hourly performance by   *)
(* hour, both ascending.                                                   *)
C18_AlwaysMetricDescending ==
    /\ ListAnswered("get_product_ranking") => DescendingBy("total_quantity")
    /\ ListAnswered("get_channel_performance") => DescendingBy("total_revenue")
    /\ ListAnswered("get_store_performance") => DescendingBy("total_revenue")
    /\ ListAnswered("get_time_series") => DescendingBy("revenue")
    /\ ListAnswered("get_delivery_performance") =>
          DescendingBy("total_delivery_time_minutes")
    /\ ListAnswered("get_hourly_performance") => DescendingBy("revenue")

(* C18, amended: product ranking is in descending order of total quantity, *)
(* channel and store performance of total revenue, delivery performance of *)
(* the sum of the two averages with the groups that have no production     *)
(* time first; the time series is in ascending order of date and the       *)
(* hourly performance of hour.                                             *)
C18_OrderedAsTheStatementSays ==
    /\ ListAnswered("get_product_ranking") => DescendingBy("total_quantity")
    /\ ListAnswered("get_channel_performance") => DescendingBy("total_revenue")
    /\ ListAnswered("get_store_performance") => DescendingBy("total_revenue")
    /\ ListAnswered("get_time_series") => AscendingByDate
    /\ ListAnswered("get_delivery_performance") => DeliveryDescendingNullsFirst
    /\ ListAnswered("get_hourly_performance") => AscendingByHour

(* A time series of two days, the later day with the larger revenue.       *)
C18_Witness ==
    /\ ListAnswered("get_time_series")
    /\ Len(response.body) = 2
    /\ ~RatGeq(response.body[1].revenue, response.body[2].revenue)
    /\ AscendingByDate

----------------------------------------------------------------------------
(* Claims about the margin analyses (SpecMargin).                          *)

(* The line items of product pid in completed sales the request selects.   *)
CompletedLineItems(pid) ==
    {l \in product_sales :
        /\ l.product_id = pid
        /\ \E x \in sales :
              /\ x.id = l.sale_id
              /\ x.sale_status_desc = "COMPLETED"
              /\ Passes(x, request.date_range, request.filters)}

(* The average of total_price - base_price over the line items.            *)
AverageCustomization(items) ==
    Rat(SumFn([l \in items |-> l.total_price - l.base_price], items),
        Cardinality(items))

AscendingByProfit ==
    \A i \in 1..(Len(response.body) - 1) :
        response.body[i].gross_profit <= response.body[i + 1].gross_profit

(* C19: the product margin analysis lists its rows by total revenue (the   *)
(* sum of total_price) descending, each with avg_customization_value the   *)
(* average of total_price - base_price over the product's line items in    *)
(* completed sales; the list ordered by ascending profit is the one of the *)
(* prototype's low-margin products.                                        *)
C19_MarginByRevenueLowMarginByProfit ==
    /\ ListAnswered("get_product_margin_analysis") =>
          /\ DescendingBy("total_revenue")
          /\ \A i \in DOMAIN response.body :
                /\ CompletedLineItems(response.body[i].product_id) # {}
                /\ response.body[i].avg_customization_value =
                      AverageCustomization(
                          CompletedLineItems(response.body[i].product_id))
                /\ response.body[i].total_revenue =
                      Float(SumFn([l \in CompletedLineItems(
                                            response.body[i].product_id) |->
                                      l.total_price],
                                  CompletedLineItems(response.body[i].product_id)))
    /\ ListAnswered("GET /analytics/low-margin-products") => AscendingByProfit

(* Two products listed, the one with the larger revenue first although its *)
(* customization value is the smaller.                                     *)
C19_Witness ==
    /\ ListAnswered("get_product_margin_analysis")
    /\ Len(response.body) = 2
    /\ ~RatGeq(response.body[2].total_revenue, response.body[1].total_revenue)
    /\ ~RatGeq(response.body[1].avg_customization_value,
               response.body[2].avg_customization_value)

(* Two low-margin products listed, the first at a loss, and not in the     *)
(* order of their revenue.                                                 *)
LowMarginWitness ==
    /\ ListAnswered("GET /analytics/low-margin-products")
    /\ Len(response.body) = 2
    /\ response.body[1].gross_profit < 0
    /\ response.body[1].gross_profit < response.body[2].gross_profit
    /\ response.body[1].revenue > response.body[2].revenue

----------------------------------------------------------------------------
(* Claims about the case of the status (SpecCasing).                       *)

(* The sales whose status is 'COMPLETED' letter for letter, and those      *)
(* whose status reads completed in any case.                               *)
ExactlyCompleted == {x \in sales : x.sale_status_desc = "COMPLETED"}

CompletedInAnyCase ==
    {x \in sales : x.sale_status_desc \in {"COMPLETED", "Completed", "completed"}}

SelectedOf(S) ==
    {x \in S : Passes(x, request.date_range, request.filters)}

(* The sum of a field over the rows of the response.                       *)
Total(field) ==
    SumFn([i \in DOMAIN response.body |-> response.body[i][field]],
          DOMAIN response.body)

TotalNum(field) ==
    SumFn([i \in DOMAIN response.body |-> response.body[i][field].num],
          DOMAIN response.body)

QuantityOf(S) ==
    LET items == {l \in product_sales : \E x \in S : x.id = l.sale_id}
    IN SumFn([l \in items |-> l.quantity], items)

(* C20: the service counts a sale as completed only when its status is     *)
(* 'COMPLETED' in exactly this case, the prototype whenever it reads       *)
(* completed in any case: a sale marked 'completed' or 'Completed' is in   *)
(* the prototype's figures and in none of the service's.                   *)
C20_StatusCaseDividesTheLayers ==
    /\ (ListAnswered("get_time_series") \/ ListAnswered("get_hourly_performance"))
          => Total("sales_count") = Cardinality(SelectedOf(ExactlyCompleted))
    /\ (ListAnswered("get_channel_performance")
            \/ ListAnswered("get_store_performance"))
          => Total("total_sales") = Cardinality(SelectedOf(ExactlyCompleted))
    /\ ListAnswered("get_product_ranking")
          => TotalNum("total_quantity") = QuantityOf(SelectedOf(ExactlyCompleted))
    /\ ListAnswered("get_product_margin_analysis")
          => Total("order_count") =
               Cardinality({x \in SelectedOf(ExactlyCompleted) :
                              QuantityOf({x}) > 0})
    /\ (ListAnswered("get_customer_retention") /\ request.min_orders = 0)
          => /\ Total("total_orders") = Cardinality(ExactlyCompleted)
             /\ Len(response.body) = IF ExactlyCompleted = {} THEN 0 ELSE 1
    /\ (ListAnswered("GET /analytics/top-products") /\ request.limit = 10)
          => Total("quantity") = QuantityOf(CompletedInAnyCase)
    /\ (ListAnswered("GET /analytics/ticket-trend") /\ request.end = None)
          => Len(response.body) = IF CompletedInAnyCase = {} THEN 0 ELSE 1

(* A time series over a sale marked 'Completed' and one marked 'COMPLETED': *)
(* one sale counted.                                                       *)
C20_Witness ==
    /\ ListAnswered("get_time_series")
    /\ request.date_range = None
    /\ \E x \in sales : x.sale_status_desc = "Completed"
    /\ Cardinality(ExactlyCompleted) = 1
    /\ Len(response.body) = 1
    /\ response.body[1].sales_count = 1

(* The top products over a sale marked 'completed' and no other: its line  *)
(* items are counted.                                                      *)
PrototypeCountsLowerCase ==
    /\ ListAnswered("GET /analytics/top-products")
    /\ Cardinality(sales) = 1
    /\ \A x \in sales : x.sale_status_desc = "completed"
    /\ Len(response.body) = 1
    /\ response.body[1].quantity > 0

----------------------------------------------------------------------------
(* Claims about the two health checks and the shared handle (Spec).        *)

Healthy == OkResponse([status |-> "healthy"])
StatusOk == OkResponse([status |-> "ok"])

(* The step hands a request for op to its handler.                         *)
Handles(op) == Idle /\ request' # NoRequest /\ request'.op = op

HealthyWhileDisconnected ==
    /\ request.op = "GET /health"
    /\ response = Healthy
    /\ ~is_connected

(* The prototype's query endpoints.                                        *)
PrototypeQueries == {"GET /analytics/top-products"}

(* C24: the shared handle is connected in every state after startup, and   *)
(* every query endpoint of the prototype that has answered found it so:    *)
(* it answered with its rows.                                              *)
C24_HandleStaysConnected ==
    /\ is_connected
    /\ (request.op \in PrototypeQueries /\ response # NoResponse) =>
           response.status = 200

(* A health check answered ok and left the handle closed; the top products *)
(* asked for next were answered 500 without a statement sent.              *)
QueryAfterHealthFails ==
    /\ request.op = "GET /analytics/top-products"
    /\ ~is_connected
    /\ response = InternalServerError
    /\ issued = <<>>

(* The responses that the parameters of the request and the contents of    *)
(* the store determine: those the handler gives with the handle as it is   *)
(* after startup.                                                          *)
DeterminedResponses ==
    CASE request.op = "GET /analytics/top-products" ->
            {OkResponse(rows) :
                rows \in TopProductsRows(request.channel, None, None, None,
                                         request.limit)}
      [] request.op = "GET /metadata" -> GetMetadata
      [] request.op = "GET /health" -> {Healthy}
      [] OTHER -> {response}

(* C21: the response to a request is one that its parameters and the       *)
(* contents of the store determine, whatever requests were handled before. *)
C21_OutcomeFromParametersAndStore ==
    response # NoResponse => response \in DeterminedResponses

(* The production endpoints hold no state of their own: their responses    *)
(* are determined whatever the prototype's handle has been through.        *)
ProductionHoldsNoState ==
    (response # NoResponse /\ request.op \in {"GET /metadata", "GET /health"})
        => response \in DeterminedResponses

MetadataWhileDisconnected ==
    /\ request.op = "GET /metadata"
    /\ ~is_connected
    /\ response \in GetMetadata

----------------------------------------------------------------------------
(* Claims about the metadata listings (SpecMetadata).                      *)

(* The ids of the rows of a list, and whether it lists no row twice.       *)
IdsOf(list) == {list[i].id : i \in DOMAIN list}
NoRepeats(list) == \A i, j \in DOMAIN list : list[i].id = list[j].id => i = j

(* The list is exactly the rows of S, each once.                           *)
Lists(list, S) == IdsOf(list) = {x.id : x \in S} /\ NoRepeats(list)

ActiveStores == {x \in stores : x.is_active = TRUE}
LiveCategories == {x \in categories : x.deleted_at = Null}
LiveProducts == {x \in products : x.deleted_at = Null}

(* The stores, channels and categories listed are the ones named.          *)
DimensionListings ==
    /\ request.op = "GET /stores" =>
          Lists(response.body,
                IF QueryDefault(request.active_only, TRUE) THEN ActiveStores
                ELSE stores)
    /\ request.op = "GET /channels" => Lists(response.body, channels)
    /\ request.op = "GET /categories" => Lists(response.body, LiveCategories)
    /\ request.op = "GET /metadata" =>
          /\ Lists(response.body.stores, ActiveStores)
          /\ Lists(response.body.channels, channels)
          /\ Lists(response.body.categories, LiveCategories)

(* The products listed are min(limit, number of candidates) of the         *)
(* candidates, each once.                                                  *)
ProductListing(candidates) ==
    (request.op = "GET /products" /\ response.status = 200) =>
        LET limit == QueryDefault(request.limit, 100)
            n == Cardinality(candidates)
        IN /\ IdsOf(response.body) \subseteq {x.id : x \in candidates}
           /\ NoRepeats(response.body)
           /\ Len(response.body) = IF limit < n THEN limit ELSE n

(* C23: /stores with active_only (the default) and /metadata list the      *)
(* active stores, /channels all channels, /categories and /metadata the    *)
(* categories not deleted, and /products at most limit (default 100) of    *)
(* the products not deleted, those of category_id when it is given.        *)
C23_MetadataListings ==
    /\ DimensionListings
    /\ ProductListing({x \in LiveProducts :
                         request.category_id # None =>
                             x.category_id = request.category_id})

(* What the listings do: as C23, with the category a criterion only when   *)
(* it is given and is not 0.                                               *)
MetadataListingsNonZeroCategory ==
    /\ DimensionListings
    /\ ProductListing({x \in LiveProducts :
                         (request.category_id # None
                            /\ request.category_id # Some(0)) =>
                             x.category_id = request.category_id})

(* /products?category_id=0 listed a product of category 1.                 *)
ZeroCategoryListsAll ==
    /\ request.op = "GET /products"
    /\ request.category_id = Some(0)
    /\ response.status = 200
    /\ \E i \in DOMAIN response.body : response.body[i].category_id = Some(1)

(* /products?category_id=1&limit=1 over two live products of category 1    *)
(* and /stores over an inactive store.                                     *)
ProductsLimitWitness ==
    /\ request.op = "GET /products"
    /\ request.category_id = Some(1)
    /\ request.limit = Some(1)
    /\ Cardinality({x \in LiveProducts : x.category_id = Some(1)}) = 2
    /\ Len(response.body) = 1

StoresWitness ==
    /\ request.op = "GET /stores"
    /\ request.active_only = None
    /\ ActiveStores # stores
    /\ Len(response.body) = 1

NegativeLimitRefused ==
    /\ request.op = "GET /products"
    /\ request.limit = Some(0 - 1)
    /\ response = InternalServerError

----------------------------------------------------------------------------
(* Claims about performance under ingestion (SpecIngest).                  *)

(* C25: whatever the pipeline writes between the two queries of a channel  *)
(* or store performance request, no revenue_percentage of the response     *)
(* exceeds 100 and the percentages sum to at most 100.                     *)
C25_PercentagesAtMost100UnderIngestion ==
    (IsPerformance /\ response # NoResponse /\ response.status = 200) =>
        /\ \A i \in DOMAIN response.body :
              response.body[i].revenue_percentage.num
                  <= 100 * response.body[i].revenue_percentage.den
        /\ PercentageSum(response.body).num
              <= 100 * PercentageSum(response.body).den

(* A sale was inserted between the queries: the total read was 10 and the  *)
(* one group of the response has revenue 20, 200 per cent.                 *)
IngestedBetweenQueries ==
    /\ IsPerformance
    /\ response # NoResponse
    /\ issued[1].result = 10
    /\ Len(response.body) = 1
    /\ response.body[1].revenue_percentage = [num |-> 200, den |-> 1]

(* When the grouped query reads the table the total was read from, the     *)
(* percentages sum to at most 100.                                         *)
PercentagesAtMost100WithoutIngestion ==
    [][(/\ IsPerformance
        /\ response = NoResponse
        /\ response' # NoResponse
        /\ response'.status = 200
        /\ issued[1].result = TotalRevenue(request.date_range,
                                           request.filters))
         => PercentageSum(response'.body).num
                <= 100 * PercentageSum(response'.body).den]_vars

----------------------------------------------------------------------------
(* Claims about the rows of the delivery performance (SpecOrder).          *)

IsDelivery == request.op = "get_delivery_performance" /\ response.status = 200

(* total_delivery_time_minutes of row i is the sum of the two averages of  *)
(* the same row.                                                           *)
TotalIsSum(i) ==
    response.body[i].total_delivery_time_minutes =
        RatAdd(response.body[i].avg_delivery_time_minutes,
               response.body[i].avg_production_time_minutes)

(* C26: in every row of a delivery performance response the total is the   *)
(* sum of the two averages of that row, also for a group none of whose     *)
(* deliveries has a production time.                                       *)
C26_TotalIsSumOfAverages ==
    IsDelivery => \A i \in DOMAIN response.body : TotalIsSum(i)

(* The total is the sum in the rows of the groups with a production time.  *)
TotalIsSumWhenProductionKnown ==
    IsDelivery =>
        \A i \in DOMAIN response.body : ~NoProductionTime(i) => TotalIsSum(i)

(* A listed group without production times: average delivery 10 minutes,   *)
(* average production 0, total 0.                                          *)
TotalLostWithoutProduction ==
    /\ IsDelivery
    /\ \E i \in DOMAIN response.body :
          /\ NoProductionTime(i)
          /\ response.body[i].avg_delivery_time_minutes = [num |-> 10, den |-> 1]
          /\ response.body[i].avg_production_time_minutes = ZeroFloat
          /\ response.body[i].total_delivery_time_minutes = ZeroFloat

(* A listed group with production times: 10 + 5 = 15 minutes.              *)
TotalOfFifteenMinutes ==
    /\ IsDelivery
    /\ \E i \in DOMAIN response.body :
          response.body[i].total_delivery_time_minutes = [num |-> 15, den |-> 1]

----------------------------------------------------------------------------
(* Claims about the rows of the customer retention (SpecRetention).        *)

IsRetention == request.op = "get_customer_retention" /\ response.status = 200

(* C27: every customer of a retention response has been away for at least  *)
(* days_inactive days when the row is built, and has at least min_orders    *)
(* orders, although the cutoff and the days away come from two readings of *)
(* the clock.                                                              *)
C27_RetentionRowsMeetBothBounds ==
    IsRetention =>
        \A i \in DOMAIN response.body :
            /\ response.body[i].days_since_last_order >= request.days_inactive
            /\ response.body[i].total_orders >= request.min_orders

(* Three orders, the last 31 days before the first reading of the clock    *)
(* and 32 days before the second.                                          *)
C27_Witness ==
    /\ IsRetention
    /\ request.min_orders = 3
    /\ request.days_inactive = 30
    /\ Len(response.body) = 1
    /\ response.body[1].total_orders = 3
    /\ response.body[1].last_order_date = now - 31
    /\ response.body[1].days_since_last_order = 32

----------------------------------------------------------------------------
(* Claims about the counts of the sales overview (SpecOverview).           *)

(* The sales the request's filter selects, of every status.                *)
FilteredSales ==
    {s \in sales : Passes(s, request.date_range, request.filters)}

WithStatus(status) == {s \in FilteredSales : s.sale_status_desc = status}

(* The sum of a nullable column over the filtered sales, as a float; 0     *)
(* when no filtered sale has a value.                                      *)
FilteredSum(column) ==
    LET present == {s \in FilteredSales : s[column] # Null}
    IN Float(SumFn([s \in present |-> Val(s[column])], present))

(* C28: in a sales overview the three counts are not negative and          *)
(* completed_sales + cancelled_sales <= total_sales: total_sales counts    *)
(* every filtered sale, the other two those whose status is exactly        *)
(* COMPLETED and exactly CANCELLED; the revenue, discount and delivery fee *)
(* totals are taken over every filtered sale, whatever its status.         *)
C28_OverviewCountsAndTotals ==
    (request.op = "get_sales_overview" /\ response.status = 200) =>
        /\ response.body.total_sales >= 0
        /\ response.body.completed_sales >= 0
        /\ response.body.cancelled_sales >= 0
        /\ response.body.completed_sales + response.body.cancelled_sales
              <= response.body.total_sales
        /\ response.body.total_sales = Cardinality(FilteredSales)
        /\ response.body.completed_sales = Cardinality(WithStatus("COMPLETED"))
        /\ response.body.cancelled_sales = Cardinality(WithStatus("CANCELLED"))
        /\ response.body.total_revenue = Float(AmountOf(FilteredSales))
        /\ response.body.total_discount = FilteredSum("total_discount")
        /\ response.body.total_delivery_fee = FilteredSum("delivery_fee")

(* Two filtered sales, one COMPLETED and one spelled completed: the second *)
(* is in total_sales and in the revenue only.                              *)
C28_Witness ==
    /\ request.op = "get_sales_overview"
    /\ response.status = 200
    /\ Cardinality(WithStatus("completed")) = 1
    /\ response.body.total_sales = 2
    /\ response.body.completed_sales = 1
    /\ response.body.cancelled_sales = 0
    /\ response.body.total_revenue = Float(20)
    /\ response.body.total_delivery_fee = Float(6)

----------------------------------------------------------------------------
(* Claims about the two churn lists (SpecChurn).                           *)

IsChurned ==
    request.op = "GET /analytics/churned-customers" /\ response # NoResponse

(* Every status in the store is exactly COMPLETED or exactly CANCELLED.    *)
ExactStatuses ==
    \A s \in sales : s.sale_status_desc \in {"COMPLETED", "CANCELLED"}

(* The customers of a churned list and of a retention list, each with the  *)
(* number of orders and the time of the last one.                          *)
ChurnedSet(rows) ==
    {<<rows[i].customer_id, rows[i].orders_count, Val(rows[i].last_order_at)>> :
        i \in DOMAIN rows}

RetentionSet(rows) ==
    {<<rows[i].customer_id, rows[i].total_orders, rows[i].last_order_date>> :
        i \in DOMAIN rows}

(* What get_customer_retention lists for the thresholds of the request.    *)
RetentionLists ==
    {r.body : r \in GetCustomerRetention(request.min_orders, request.days,
                                         now, now)}

(* C29: when every status is exactly COMPLETED or CANCELLED, the           *)
(* prototype's churned_customers(min_orders, days) answers with the        *)
(* customers, order counts and last-order times that                       *)
(* get_customer_retention(min_orders, days) lists.                         *)
C29_ChurnedEqualsRetention ==
    (IsChurned /\ ExactStatuses) =>
        /\ response.status = 200
        /\ \A list \in RetentionLists :
              ChurnedSet(response.body) = RetentionSet(list)

(* The rows the prototype's statement selects are those of the retention   *)
(* list, in every store with exact statuses.                               *)
ChurnedStatementEqualsRetention ==
    (IsChurned /\ ExactStatuses) =>
        \A rows \in ChurnedRows(request.min_orders, request.days, now),
           list \in RetentionLists :
            ChurnedSet(rows) = RetentionSet(list)

(* The prototype answers with a list only when the list is empty.          *)
ChurnedAnswersOnlyEmptyLists ==
    (IsChurned /\ response.status = 200) => response.body = <<>>

(* A customer with a completed order 31 days ago: get_customer_retention   *)
(* lists the customer for min_orders 1 and 29 days, the statement was      *)
(* sent, and the prototype answered 500.                                   *)
ChurnedFailsOnARow ==
    /\ IsChurned
    /\ ExactStatuses
    /\ request.min_orders = 1
    /\ request.days = 29
    /\ \E list \in RetentionLists : Len(list) = 1
    /\ issued = <<"SELECT">>
    /\ response = InternalServerError

(* With a status spelled completed the two statements differ.              *)
ChurnedCountsLowerCase ==
    /\ IsChurned
    /\ ~ExactStatuses
    /\ \E rows \in ChurnedRows(request.min_orders, request.days, now),
          list \in RetentionLists :
            ChurnedSet(rows) # RetentionSet(list)

============================================================================
